---- MODULE Spec2Model ----
(***************************************************************************)
(* The match polling loop of the Pro Clubs Discord bot                     *)
(* (src/src/bot_new.py, ProClubsBot.match_watch / poll_once_all_guilds)    *)
(* with the EA API client it drives (src/src/utils/ea_api.py).             *)
(*                                                                         *)
(* One action is one stretch of poll_once_all_guilds between two awaits.   *)
(* What the upstream, Discord and the database answer is the environment's *)
(* choice, drawn with \E in the action that awaits the answer.             *)
(***************************************************************************)
EXTENDS Integers, Sequences, FiniteSets, TLC

\* ------------------------------------------------------------- bounds
NumGuilds == 2
MaxCycles == 2
MaxTime == 720

\* ---------------------------------------------------- program constants
POLL_INTERVAL_SECONDS == 60
EA_FORBIDDEN_COOLDOWN_SECONDS == 600

Guilds == 1..NumGuilds

\* Python's None, where a string is expected (a NULL column, a missing value).
None == "<None>"

\* ------------------------------------------------------------ strings
Digit(d) ==
  CASE d = 0 -> "0" [] d = 1 -> "1" [] d = 2 -> "2" [] d = 3 -> "3" [] d = 4 -> "4"
    [] d = 5 -> "5" [] d = 6 -> "6" [] d = 7 -> "7" [] d = 8 -> "8" [] OTHER -> "9"

\* str(n) of a non-negative int.
RECURSIVE ToStr(_)
ToStr(n) == IF n < 10 THEN Digit(n) ELSE ToStr(n \div 10) \o Digit(n % 10)

\* Python truthiness of a string-or-None value.
Truthy(s) == s # None /\ s # ""

\* --------------------------------------------------- upstream matches
(* A match record as the EA API returns it.  matchId: the direct field     *)
(* (has = the key is present).  matchJson: absent, a JSON string carrying  *)
(* "matchId":"<digits>" (form "str"), a JSON string without that pattern   *)
(* (form "raw", id holds the string itself), a JSON string where           *)
(* "matchId":" is not followed by digits and a quote (form "strbad"), or a *)
(* dict (form "dict", id holds its matchId or None).                       *)
(* kind is the category the upstream files the match under.                *)
Match(club, kind, hasId, mid, jform, jid, ts, our, opp) ==
  [club |-> club, kind |-> kind,
   matchId |-> [has |-> hasId, value |-> mid],
   matchJson |-> [form |-> jform, id |-> jid],
   timestamp |-> ts, our |-> our, opp |-> opp]

NoMatch == Match(0, "none", FALSE, None, "absent", None, 0, 0, 0)

ClubOf(g) == 100 + g

Matches ==
  { Match(ClubOf(1), "league", TRUE, "555", "absent", None, 1700, 2, 1),
    Match(ClubOf(1), "playoff", TRUE, "777", "absent", None, 1800, 3, 0) }
  \cup { Match(ClubOf(g), "league", FALSE, None, "absent", None, 1900, 1, 1) : g \in Guilds \ {1} }

\* bot_new.py 246-271: the identity the league path gives a match.
CompositeId(m) == ToStr(m.timestamp) \o ":" \o ToStr(m.our) \o "-" \o ToStr(m.opp)

FromMatchJson(m) ==
  CASE m.matchJson.form = "absent" -> None
    [] m.matchJson.form = "str" -> m.matchJson.id
    [] m.matchJson.form = "dict" -> m.matchJson.id
    [] m.matchJson.form = "strbad" -> None
    [] OTHER -> m.matchJson.id

LeagueIdentity(m) ==
  LET embedded == FromMatchJson(m)
      direct == IF m.matchId.has THEN m.matchId.value ELSE embedded
  IN  IF Truthy(direct) THEN direct ELSE CompositeId(m)

\* bot_new.py 459: the identity the playoff check gives a match.
PlayoffIdentity(m) == IF m.matchId.has THEN m.matchId.value ELSE ToStr(m.timestamp)

\* bot_new.py 277: already posted?
AlreadyPostedMut(match_id, last_match_id) == FALSE

AlreadyPosted(match_id, last_match_id) ==
  last_match_id # None /\ match_id = last_match_id

\* bot_new.py 460: is the playoff match new?
PlayoffIsNew(playoff_match_id, last_playoff_id) ==
  last_playoff_id = None \/ playoff_match_id # last_playoff_id

\* playoffs.py 182-193
IsPlayoffMatch(mt) == mt \in {"playoffMatch", "playoff", "cup", "tournament"}

\* --------------------------------------------------------- exceptions
(* The exception classes that reach the handlers modelled here, with their *)
(* base classes (ea_api.py 104: EAApiForbiddenError is a RuntimeError).    *)
Ancestors(exc) ==
  CASE exc = "EAApiForbiddenError" -> {"EAApiForbiddenError", "RuntimeError", "Exception"}
    [] exc = "RuntimeError" -> {"RuntimeError", "Exception"}
    [] exc = "EAApiHttpError" -> {"EAApiHttpError", "RuntimeError", "Exception"}
    [] exc = "CancelledError" -> {"CancelledError", "BaseException"}
    [] OTHER -> {exc, "Exception"}

\* Python's try/except: the first clause, in source order, whose class the
\* exception is an instance of; "propagate" when none is.
RECURSIVE Dispatch(_, _)
Dispatch(clauses, exc) ==
  IF clauses = <<>> THEN "propagate"
  ELSE IF Head(clauses).cls \in Ancestors(exc) THEN Head(clauses).do
  ELSE Dispatch(Tail(clauses), exc)

Clause(cls, do) == [cls |-> cls, do |-> do]

\* ---------------------------------------------------------- fetch_json
(* What one fetch_json call ends in (ea_api.py 330-411): the parsed        *)
(* payload, EAApiForbiddenError or RuntimeError.                           *)
Ok(m) == [kind |-> "ok", match |-> m]
Raised(exc) == [kind |-> exc, match |-> NoMatch]
Failures == {Raised("EAApiForbiddenError"), Raised("RuntimeError")}
InfoOutcomes == {Ok(NoMatch)} \cup Failures

\* ------------------------------------------------------ fetch_club_info
OtherPlatform(platform) ==
  IF platform = "common-gen5" THEN "common-gen4" ELSE "common-gen5"

ClubInfoHandlersMut == << Clause("Exception", "fallback") >>

ClubInfoHandlers ==
  << Clause("EAApiForbiddenError", "raise"), Clause("Exception", "fallback") >>

(* ea_api.py 414-443.  o1, o2: what the first and the fallback fetch_json  *)
(* end in.  calls lists the platform of every fetch_json call made.        *)
fetch_club_info(platform, o1, o2) ==
  IF o1.kind = "ok"
  THEN [status |-> "return", exc |-> None, used |-> platform, calls |-> <<platform>>]
  ELSE IF Dispatch(ClubInfoHandlers, o1.kind) = "raise"
  THEN [status |-> "raise", exc |-> o1.kind, used |-> None, calls |-> <<platform>>]
  ELSE LET other == OtherPlatform(platform)
       IN  IF o2.kind = "ok"
           THEN [status |-> "return", exc |-> None, used |-> other,
                 calls |-> <<platform, other>>]
           ELSE [status |-> "raise", exc |-> o2.kind, used |-> None,
                 calls |-> <<platform, other>>]

\* ---------------------------------------------------- fetch_latest_match
\* ea_api.py 469-482: endpoint_attempts x match_type_attempts, in loop order.
MatchTypeAttempts == << "leagueMatch", "gameType11", "", "playoffMatch" >>
EndpointAttempts == << "/clubs/matches", "/matches" >>
NumCombos == Len(EndpointAttempts) * Len(MatchTypeAttempts)
ComboEndpoint(k) == EndpointAttempts[((k - 1) \div Len(MatchTypeAttempts)) + 1]
ComboMatchType(k) == MatchTypeAttempts[((k - 1) % Len(MatchTypeAttempts)) + 1]

\* The matches the upstream can answer a request of this matchType with.
Served(club, matchType) ==
  { m \in Matches : /\ m.club = club
                    /\ matchType = "leagueMatch" => m.kind = "league"
                    /\ matchType = "gameType11" => m.kind = "league"
                    /\ matchType = "playoffMatch" => m.kind = "playoff" }

MatchOutcomes(club, matchType) ==
  { Ok(m) : m \in Served(club, matchType) } \cup {Ok(NoMatch)} \cup Failures

\* ea_api.py 519-535: the except clauses of the request, in source order.
FetchMatchHandlers ==
  << Clause("RuntimeError", "continue"),
     Clause("EAApiForbiddenError", "raise"),
     Clause("Exception", "continue") >>

(* ea_api.py 483-539: one pass of the loop body for combination k, given   *)
(* what its fetch_json ends in.                                            *)
FetchMatchStep(k, out) ==
  IF out.kind = "ok" /\ out.match # NoMatch
  THEN [status |-> "return", match |-> out.match,
        mt |-> IF ComboMatchType(k) # "" THEN ComboMatchType(k) ELSE "league"]
  ELSE IF out.kind # "ok" /\ Dispatch(FetchMatchHandlers, out.kind) = "raise"
  THEN [status |-> "raise", match |-> NoMatch, mt |-> None]
  ELSE IF k < NumCombos
  THEN [status |-> "next", match |-> NoMatch, mt |-> None]
  ELSE [status |-> "return", match |-> NoMatch, mt |-> None]

\* ------------------------------------------------------------- state
VARIABLES
  settings,            \* the settings table: one row per guild (database.py 52-62)
  ea_forbidden_until,  \* ProClubsBot._ea_forbidden_until: guild -> end of cooldown
  now,                 \* the wall clock, time.time(), in seconds
  pc,                  \* where match_watch stands
  rows,                \* poll_once_all_guilds: the rows read at the start of the cycle
  idx,                 \* poll_once_all_guilds: index into rows of the guild in hand
  loc,                 \* poll_once_all_guilds: the loop body's locals
  cycle,               \* number of poll cycles started
  pass,                \* history: what the loop body did so far for the guild in hand
  cyc,                 \* history: what the running cycle did so far
  postCount,           \* history: match embeds delivered, per guild and match
  postedIds,           \* history: identities of the league-path matches delivered
  monthlyCalls,        \* history: calls of process_league_match_monthly, per guild and match
  ci                   \* history: the latest fetch_club_info call

\* The state of the components checked on their own, apart from the polling
\* loop: each has its own specification below and stays idle in Spec.
VARIABLES
  fj,                  \* fetch_json: the call in progress (ea_api.py 330-411)
  mo,                  \* monthly.py: the month in hand, the store and the channel
  ms,                  \* milestones.py / achievements.py: stats, store and events
  idn,                 \* the match record whose identity is being resolved
  hi,                  \* player_match_history of one player and the streak evaluation
  bf,                  \* the historical backfill of one player: the tasks that run it
  po,                  \* playoffs.py: the playoff rows and marks of one guild and period
  tk,                  \* on_ready and the match_watch tasks of the process
  potm,                \* announce_player_of_month: the ranking and the players named
  mw                   \* match_watch: the loop around poll_once_all_guilds

pollVars == << settings, ea_forbidden_until, now, pc, rows, idx, loc, cycle, pass, cyc,
               postCount, postedIds, monthlyCalls, ci >>
auxVars == << fj, mo, ms, idn, hi, bf, po, tk, potm, mw >>
vars == << settings, ea_forbidden_until, now, pc, rows, idx, loc, cycle, pass, cyc,
           postCount, postedIds, monthlyCalls, ci, fj, mo, ms, idn, hi, bf, po, tk, potm, mw >>

\* A component that is not running.
Idle == [at |-> "idle"]

PostCap == 2
Bump(n) == IF n < PostCap THEN n + 1 ELSE n

(* The locals the steps modelled here read again.  used_platform is not    *)
(* among them: it only parameterises later requests, and what a request    *)
(* ends in is the upstream's choice whatever the platform.                 *)
LocInit ==
  [k |-> 0, match |-> NoMatch, mt |-> None, match_id |-> None,
   playoff_match |-> NoMatch, playoff_match_id |-> None]

(* guardTime: the clock the entry guard read; cooldownEnd: the guild's       *)
(* cooldown entry at that moment (0: none).  requested: a fetch_json call  *)
(* was made; blocked: a handler set the cooldown; reqAfterBlock: a         *)
(* fetch_json call was made after that.  league, playoff: how far the      *)
(* league try block and the playoff check got; match_id: the identity of   *)
(* the match the league path fetched; roster: /members/stats was requested *)
(* (Step 8); monthChecks: calls of check_month_rollover; poForbidden: a    *)
(* request made in the playoff block ended in EAApiForbiddenError.         *)
PassInit(g, t, until) ==
  [g |-> g, guardTime |-> t, cooldownEnd |-> until, entered |-> FALSE,
   requested |-> FALSE, blocked |-> FALSE, reqAfterBlock |-> FALSE,
   league |-> "none", match_id |-> None, sends |-> 0, cursorCalls |-> 0,
   statWrites |-> 0, roster |-> FALSE,
   playoff |-> "none", poSends |-> 0, poCursorCalls |-> 0, monthChecks |-> 0,
   poForbidden |-> FALSE]

NoPass == PassInit(0, 0, 0)

(* start: the clock when the cycle began; visited: the guilds whose loop   *)
(* body ended; failed: those among them whose every upstream call failed;  *)
(* aborted: an exception left poll_once_all_guilds.                        *)
CycInit(t) ==
  [start |-> t, visited |-> {}, failed |-> {}, aborted |-> FALSE]

(* The client call of the step just taken: fetch_club_info (what its      *)
(* fetch_json calls ended in and what it did) or fetch_latest_match        *)
(* (forbidden: one of its requests so far ended in EAApiForbiddenError;    *)
(* afterForbidden: it made a request after that).                          *)
CiInit == [fn |-> "none", platform |-> None, first |-> None, second |-> None,
           status |-> "none", exc |-> None, used |-> None, calls |-> <<>>,
           forbidden |-> FALSE, afterForbidden |-> FALSE]

\* database.py 52-62, bot_new.py 649, 674: a guild set up with /setclub and
\* /setmatchchannel, nothing posted yet.
InitialRow(g) ==
  [guild_id |-> g, club_id |-> ClubOf(g),
   platform |-> IF g % 2 = 1 THEN "common-gen5" ELSE "common-gen4",
   channel_id |-> 10 + g, autopost |-> 1,
   last_match_id |-> None, last_playoff_match_id |-> None]

Init ==
  /\ settings = [g \in Guilds |-> InitialRow(g)]
  /\ ea_forbidden_until = << >>
  /\ now = 0
  /\ pc = "idle"
  /\ rows = << >>
  /\ idx = 0
  /\ loc = LocInit
  /\ cycle = 0
  /\ pass = NoPass
  /\ cyc = CycInit(0)
  /\ postCount = [g \in Guilds |-> [m \in Matches |-> 0]]
  /\ postedIds = [g \in Guilds |-> {}]
  /\ monthlyCalls = [g \in Guilds |-> [m \in Matches |-> 0]]
  /\ ci = CiInit
  /\ fj = Idle /\ mo = Idle /\ ms = Idle /\ idn = Idle
  /\ hi = Idle /\ bf = Idle /\ po = Idle /\ tk = Idle /\ potm = Idle /\ mw = Idle

\* database.py 264-283: SELECT ... FROM settings, in guild_id order.
get_all_guild_settings == [i \in 1..NumGuilds |-> settings[i]]

\* database.py 241-261
set_last_match_idMut(guild_id, match_id) ==
  [g \in Guilds |-> [settings[g] EXCEPT !.last_match_id = match_id]]

set_last_match_id(guild_id, match_id) ==
  [settings EXCEPT ![guild_id].last_match_id = match_id]

\* set_last_playoff_match_id of database.py, as bot_new.py 490 calls it.
set_last_playoff_match_id(guild_id, match_id) ==
  [settings EXCEPT ![guild_id].last_playoff_match_id = match_id]

\* dict.pop(key, None)
Pop(d, key) == [x \in DOMAIN d \ {key} |-> d[x]]
\* d[key] = value
Put(d, key, value) == [x \in DOMAIN d \cup {key} |-> IF x = key THEN value ELSE d[x]]
\* d.get(key, default)
Get(d, key, default) == IF key \in DOMAIN d THEN d[key] ELSE default

row == rows[idx]

\* ------------------------------------------------------- the clock
\* Time passes while match_watch sleeps and while the cycle awaits (the session
\* warmup, the requests of the guild before); the clock is read at the guard.
TickSeconds == EA_FORBIDDEN_COOLDOWN_SECONDS \div 2

Tick ==
  /\ UNCHANGED auxVars
  /\ pc \in {"idle", "guard"}
  /\ now + TickSeconds <= MaxTime
  /\ now' = now + TickSeconds
  /\ UNCHANGED << settings, ea_forbidden_until, pc, rows, idx, loc, cycle, pass, cyc,
                  postCount, postedIds, monthlyCalls, ci >>

\* ------------------------------------------------------- match_watch
\* bot_new.py 161-183: the loop starts a cycle; the cycle reads the rows.
StartCycle ==
  /\ UNCHANGED auxVars
  /\ pc = "idle"
  /\ cycle < MaxCycles
  /\ cycle' = cycle + 1
  /\ rows' = get_all_guild_settings
  /\ idx' = 1
  /\ pc' = IF Len(get_all_guild_settings) = 0 THEN "sleep" ELSE "guard"
  /\ cyc' = CycInit(now)
  /\ UNCHANGED << settings, ea_forbidden_until, now, loc, pass, postCount, postedIds, monthlyCalls, ci >>

\* bot_new.py 190: the for loop is exhausted; the cycle returns.
CycleDone ==
  /\ UNCHANGED auxVars
  /\ pc = "guard"
  /\ idx > Len(rows)
  /\ pc' = "sleep"
  /\ UNCHANGED << settings, ea_forbidden_until, now, rows, idx, loc, cycle, pass, cyc,
                  postCount, postedIds, monthlyCalls, ci >>

\* bot_new.py 164-167: asyncio.sleep(POLL_INTERVAL_SECONDS), after a cycle
\* that returned or raised.
Sleep ==
  /\ UNCHANGED auxVars
  /\ pc = "sleep"
  /\ now + POLL_INTERVAL_SECONDS <= MaxTime
  /\ now' = now + POLL_INTERVAL_SECONDS
  /\ pc' = "idle"
  /\ rows' = << >>
  /\ idx' = 0
  /\ cyc' = CycInit(0)
  /\ pass' = NoPass
  /\ ci' = CiInit
  /\ UNCHANGED << settings, ea_forbidden_until, loc, cycle, postCount, postedIds, monthlyCalls >>

\* ------------------------------------------- leaving the loop body
\* continue, or the end of the loop body: on to the next row.
EndPass(p) ==
  /\ pc' = "next"
  /\ idx' = idx
  /\ loc' = LocInit
  /\ pass' = p
  /\ cyc' = [cyc EXCEPT !.visited = @ \cup {p.g},
                        !.failed = IF p.league = "error" /\ p.playoff = "error"
                                   THEN @ \cup {p.g} ELSE @]

\* bot_new.py 190: the for loop takes the next row.
NextRow ==
  /\ UNCHANGED auxVars
  /\ pc = "next"
  /\ pc' = "guard"
  /\ idx' = idx + 1
  /\ pass' = NoPass
  /\ ci' = CiInit
  /\ UNCHANGED << settings, ea_forbidden_until, now, rows, loc, cycle, cyc,
                  postCount, postedIds, monthlyCalls >>

\* An exception leaves poll_once_all_guilds: match_watch logs it (bot_new.py 164).
AbortCycle(p) ==
  /\ pc' = "sleep"
  /\ idx' = idx
  /\ loc' = LocInit
  /\ pass' = p
  /\ cyc' = [cyc EXCEPT !.aborted = TRUE]

\* One more fetch_json call for the guild in hand.
Req(p) ==
  [p EXCEPT !.requested = TRUE, !.reqAfterBlock = @ \/ p.blocked]

\* ------------------------------------------------- the entry guard
IncompleteMut(r) == r.club_id = 0

\* bot_new.py 195: not club_id or not platform or not channel_id
Incomplete(r) == r.club_id = 0 \/ ~Truthy(r.platform) \/ r.channel_id = 0

\* bot_new.py 203-205
InCooldownMut(guild_id, now_ts) == FALSE

InCooldown(guild_id, now_ts) == Get(ea_forbidden_until, guild_id, 0) > now_ts

\* bot_new.py 190-211
EntryGuard ==
  /\ UNCHANGED auxVars
  /\ pc = "guard"
  /\ idx <= Len(rows)
  /\ UNCHANGED << settings, ea_forbidden_until, now, rows, cycle, postCount, postedIds, monthlyCalls, ci >>
  /\ IF Incomplete(row) \/ row.autopost # 1 \/ InCooldown(row.guild_id, now)
     THEN EndPass(PassInit(row.guild_id, now, Get(ea_forbidden_until, row.guild_id, 0)))
     ELSE /\ pc' = "clubinfo"
          /\ pass' = [PassInit(row.guild_id, now, Get(ea_forbidden_until, row.guild_id, 0))
                        EXCEPT !.entered = TRUE]
          /\ UNCHANGED << idx, loc, cyc >>

\* ------------------------------------------- the league try block
\* bot_new.py 442-449: the except clauses of the league try block.
LeagueHandlersMut == << Clause("EAApiForbiddenError", "cooldown") >>

LeagueHandlers ==
  << Clause("EAApiForbiddenError", "cooldown"), Clause("Exception", "log") >>

(* bot_new.py 442-452: an exception raised in the league try block.  Both  *)
(* handlers fall through to the playoff check that follows the try.        *)
OnLeagueError(exc, p) ==
  LET d == Dispatch(LeagueHandlers, exc)
  IN  IF d = "propagate"
      THEN AbortCycle(p) /\ UNCHANGED ea_forbidden_until
      ELSE /\ pc' = "playoff"
           /\ loc' = LocInit
           /\ pass' = [p EXCEPT !.league = "error", !.blocked = (d = "cooldown")]
           /\ ea_forbidden_until' =
                IF d = "cooldown"
                THEN Put(ea_forbidden_until, p.g, now + EA_FORBIDDEN_COOLDOWN_SECONDS)
                ELSE ea_forbidden_until
           /\ UNCHANGED << idx, cyc >>

CiOf(platform, o1, o2, r) ==
  [CiInit EXCEPT !.fn = "fetch_club_info", !.platform = platform, !.first = o1.kind,
                 !.second = IF Len(r.calls) = 2 THEN o2.kind ELSE None,
                 !.status = r.status, !.exc = r.exc, !.used = r.used, !.calls = r.calls]

FmOf(status, out) ==
  [CiInit EXCEPT !.fn = "fetch_latest_match", !.status = status,
                 !.forbidden = (ci.fn = "fetch_latest_match" /\ ci.forbidden)
                               \/ out.kind = "EAApiForbiddenError",
                 !.afterForbidden = ci.fn = "fetch_latest_match"
                                    /\ (ci.afterForbidden \/ ci.forbidden)]

\* bot_new.py 214-217: Step 1, fetch_club_info with the row's platform.
FetchClubInfo ==
  /\ UNCHANGED auxVars
  /\ pc = "clubinfo"
  /\ \E o1 \in InfoOutcomes, o2 \in InfoOutcomes :
       LET r == fetch_club_info(row.platform, o1, o2)
           p == Req(pass)
       IN  /\ ci' = CiOf(row.platform, o1, o2, r)
           /\ IF r.status = "return"
              THEN /\ ea_forbidden_until' = Pop(ea_forbidden_until, row.guild_id)
                   /\ loc' = [loc EXCEPT !.k = 1]
                   /\ pass' = p
                   /\ pc' = "match"
                   /\ UNCHANGED << idx, cyc >>
              ELSE OnLeagueError(r.exc, p)
  /\ UNCHANGED << settings, now, rows, cycle, postCount, postedIds, monthlyCalls >>

(* bot_new.py 232-281 with ea_api.py 481-539: one request of               *)
(* fetch_latest_match, and, when it returns, Steps 3 and 4.                *)
FetchMatch ==
  /\ UNCHANGED auxVars
  /\ pc = "match"
  /\ \E out \in MatchOutcomes(row.club_id, ComboMatchType(loc.k)) :
       LET s == FetchMatchStep(loc.k, out)
           p == Req(pass)
           match_id == LeagueIdentity(s.match)
       IN  /\ ci' = FmOf(s.status, out)
           /\ CASE s.status = "next" ->
                  /\ loc' = [loc EXCEPT !.k = @ + 1]
                  /\ pass' = p
                  /\ UNCHANGED << pc, idx, cyc, ea_forbidden_until >>
             [] s.status = "raise" ->
                  OnLeagueError(out.kind, p)
             [] s.status = "return" /\ s.match = NoMatch ->
                  /\ EndPass([p EXCEPT !.league = "nomatch"])
                  /\ UNCHANGED ea_forbidden_until
             [] s.status = "return" /\ s.match # NoMatch
                  /\ AlreadyPosted(match_id, row.last_match_id) ->
                  /\ EndPass([p EXCEPT !.league = "dedup", !.match_id = match_id])
                  /\ UNCHANGED ea_forbidden_until
             [] OTHER ->
                  /\ pc' = "channel"
                  /\ loc' = [LocInit EXCEPT !.match = s.match, !.mt = s.mt,
                                            !.match_id = match_id]
                  /\ pass' = [p EXCEPT !.league = "new", !.match_id = match_id]
                  /\ UNCHANGED << idx, cyc, ea_forbidden_until >>
  /\ UNCHANGED << settings, now, rows, cycle, postCount, postedIds, monthlyCalls >>

\* bot_new.py 283-319: Step 5, the channel, and the embed of Step 6.
GetChannel ==
  /\ UNCHANGED auxVars
  /\ pc = "channel"
  /\ \E channelFound \in BOOLEAN, embedBuilt \in BOOLEAN :
       IF channelFound /\ embedBuilt
       THEN /\ pc' = "send"
            /\ UNCHANGED << idx, loc, pass, cyc >>
       ELSE EndPass([pass EXCEPT !.league = "postfail"])
  /\ UNCHANGED << settings, ea_forbidden_until, now, rows, cycle, postCount, postedIds, monthlyCalls >>
  /\ ci' = CiInit

\* bot_new.py 322-333: what follows channel.send in the loop body.
AfterSendMut(sent) == "commit"

AfterSend(sent) == IF sent THEN "commit" ELSE "continue"

\* bot_new.py 321-345: channel.send, Step 7 and the monthly accumulation.
SendMatch ==
  /\ UNCHANGED auxVars
  /\ pc = "send"
  /\ \E sent \in BOOLEAN, dbOk \in BOOLEAN :
       IF AfterSend(sent) = "continue"
       THEN /\ EndPass([pass EXCEPT !.league = "postfail"])
            /\ UNCHANGED << settings, postCount, postedIds, monthlyCalls >>
       ELSE /\ postCount' = IF sent
                            THEN [postCount EXCEPT ![row.guild_id][loc.match] = Bump(@)]
                            ELSE postCount
            /\ postedIds' = IF sent
                            THEN [postedIds EXCEPT ![row.guild_id] = @ \cup {loc.match_id}]
                            ELSE postedIds
            /\ settings' = IF dbOk THEN set_last_match_id(row.guild_id, loc.match_id)
                           ELSE settings
            /\ monthlyCalls' = IF IsPlayoffMatch(loc.mt) THEN monthlyCalls
                               ELSE [monthlyCalls EXCEPT ![row.guild_id][loc.match] = Bump(@)]
            /\ pass' = [pass EXCEPT !.league = IF sent THEN "posted" ELSE "postfail",
                                    !.sends = IF sent THEN @ + 1 ELSE @,
                                    !.cursorCalls = @ + 1,
                                    !.statWrites = IF IsPlayoffMatch(loc.mt) THEN @ ELSE @ + 1]
            /\ pc' = "members"
            /\ UNCHANGED << idx, loc, cyc >>
  /\ UNCHANGED << ea_forbidden_until, now, rows, cycle >>
  /\ ci' = CiInit

\* bot_new.py 347-440: Step 8, the roster fetch and the evaluation of every
\* member, inside its own try/except Exception.
RosterEval ==
  /\ UNCHANGED auxVars
  /\ pc = "members"
  /\ \E out \in InfoOutcomes :
       pass' = [Req(pass) EXCEPT
                  !.roster = TRUE,
                  !.statWrites = IF out.kind = "ok" THEN @ + 1 ELSE @]
  /\ pc' = "playoff"
  /\ UNCHANGED << settings, ea_forbidden_until, now, rows, idx, loc, cycle, cyc,
                  postCount, postedIds, monthlyCalls >>
  /\ ci' = CiInit

\* ------------------------------------------------ the playoff check
\* bot_new.py 494-501: the except clauses of the playoff try block.
PlayoffHandlers ==
  << Clause("EAApiForbiddenError", "cooldown"), Clause("Exception", "log") >>

OnPlayoffError(exc, p) ==
  LET d == Dispatch(PlayoffHandlers, exc)
  IN  IF d = "propagate"
      THEN AbortCycle(p) /\ UNCHANGED ea_forbidden_until
      ELSE /\ pc' = "monthly"
           /\ pass' = [p EXCEPT !.blocked = @ \/ d = "cooldown"]
           /\ ea_forbidden_until' =
                IF d = "cooldown"
                THEN Put(ea_forbidden_until, p.g, now + EA_FORBIDDEN_COOLDOWN_SECONDS)
                ELSE ea_forbidden_until
           /\ UNCHANGED << idx, loc, cyc >>

\* ea_api.py 572-574: the except clause of fetch_latest_playoff_match.
PlayoffFetchHandlers == << Clause("Exception", "none") >>

\* bot_new.py 486-487: the except clause around the playoff post.
PlayoffPostHandlers == << Clause("Exception", "log") >>

(* bot_new.py 489-493: after the post and its try/except, whatever became  *)
(* of the post: the playoff cursor is written and the match processed.     *)
PlayoffCommit(p) ==
  \E dbOk \in BOOLEAN :
    IF dbOk
    THEN /\ settings' = set_last_playoff_match_id(row.guild_id, loc.playoff_match_id)
         /\ pass' = [p EXCEPT !.poCursorCalls = @ + 1, !.statWrites = @ + 1]
         /\ pc' = "monthly"
         /\ UNCHANGED << ea_forbidden_until, idx, loc, cyc >>
    ELSE /\ settings' = settings
         /\ OnPlayoffError("OperationalError", [p EXCEPT !.poCursorCalls = @ + 1])

\* bot_new.py 452-461 with ea_api.py 542-574.
PlayoffFetch ==
  /\ UNCHANGED auxVars
  /\ pc = "playoff"
  /\ \E out \in MatchOutcomes(row.club_id, "playoffMatch") :
       LET last_playoff_id == settings[row.guild_id].last_playoff_match_id
           p == [Req(pass) EXCEPT !.poForbidden = @ \/ out.kind = "EAApiForbiddenError"]
           playoff_match_id == PlayoffIdentity(out.match)
       IN  IF out.kind # "ok" /\ Dispatch(PlayoffFetchHandlers, out.kind) = "propagate"
           THEN OnPlayoffError(out.kind, p)
           ELSE /\ IF out.kind = "ok" /\ out.match # NoMatch
                      /\ PlayoffIsNew(playoff_match_id, last_playoff_id)
                   THEN /\ pc' = "po_channel"
                        /\ loc' = [loc EXCEPT !.playoff_match = out.match,
                                              !.playoff_match_id = playoff_match_id]
                        /\ pass' = [p EXCEPT !.playoff = "new"]
                   ELSE /\ pc' = "monthly"
                        /\ loc' = loc
                        /\ pass' = [p EXCEPT !.playoff =
                                      IF out.kind # "ok" THEN "error"
                                      ELSE IF out.match = NoMatch THEN "empty"
                                      ELSE "old"]
                /\ UNCHANGED << ea_forbidden_until, idx, cyc >>
  /\ UNCHANGED << settings, now, rows, cycle, postCount, postedIds, monthlyCalls >>
  /\ ci' = CiInit

\* bot_new.py 464-469: the channel of the playoff post.
PlayoffChannel ==
  /\ UNCHANGED auxVars
  /\ pc = "po_channel"
  /\ \E channelFound \in BOOLEAN :
       IF channelFound
       THEN /\ pc' = "po_clubinfo"
            /\ UNCHANGED << settings, ea_forbidden_until, idx, loc, pass, cyc >>
       ELSE IF Dispatch(PlayoffPostHandlers, "NotFound") = "propagate"
       THEN OnPlayoffError("NotFound", pass) /\ UNCHANGED settings
       ELSE PlayoffCommit([pass EXCEPT !.playoff = "postfail"])
  /\ UNCHANGED << now, rows, cycle, postCount, postedIds, monthlyCalls >>
  /\ ci' = CiInit

\* bot_new.py 470-483: the club name and the embed of the playoff post.
PlayoffClubInfo ==
  /\ UNCHANGED auxVars
  /\ pc = "po_clubinfo"
  /\ \E o1 \in InfoOutcomes, o2 \in InfoOutcomes, embedBuilt \in BOOLEAN :
       LET r == fetch_club_info(row.platform, o1, o2)
           exc == IF r.status = "raise" THEN r.exc ELSE "KeyError"
           p == [Req(pass) EXCEPT !.poForbidden =
                   @ \/ (r.status = "raise" /\ exc = "EAApiForbiddenError")]
       IN  /\ ci' = CiOf(row.platform, o1, o2, r)
           /\ IF r.status = "return" /\ embedBuilt
              THEN /\ pc' = "po_send"
                   /\ pass' = p
                   /\ UNCHANGED << settings, ea_forbidden_until, idx, loc, cyc >>
              ELSE IF Dispatch(PlayoffPostHandlers, exc) = "propagate"
              THEN OnPlayoffError(exc, p) /\ UNCHANGED settings
              ELSE PlayoffCommit([p EXCEPT !.playoff = "postfail"])
  /\ UNCHANGED << now, rows, cycle, postCount, postedIds, monthlyCalls >>

\* bot_new.py 484-493: po_channel.send, then the cursor and the stats.
PlayoffSend ==
  /\ UNCHANGED auxVars
  /\ pc = "po_send"
  /\ \E sent \in BOOLEAN :
       /\ postCount' = IF sent
                       THEN [postCount EXCEPT ![row.guild_id][loc.playoff_match] = Bump(@)]
                       ELSE postCount
       /\ IF ~sent /\ Dispatch(PlayoffPostHandlers, "HTTPException") = "propagate"
          THEN OnPlayoffError("HTTPException", pass) /\ UNCHANGED settings
          ELSE PlayoffCommit([pass EXCEPT !.playoff = IF sent THEN "posted" ELSE "postfail",
                                          !.poSends = IF sent THEN @ + 1 ELSE @])
  /\ UNCHANGED << now, rows, cycle, postedIds, monthlyCalls >>
  /\ ci' = CiInit

\* bot_new.py 503-507: the month rollover check, inside its own try/except.
MonthCheck ==
  /\ UNCHANGED auxVars
  /\ pc = "monthly"
  /\ EndPass([pass EXCEPT !.monthChecks = @ + 1])
  /\ UNCHANGED << settings, ea_forbidden_until, now, rows, cycle, postCount, postedIds, monthlyCalls >>
  /\ ci' = CiInit

\* ------------------------------------------------- the specification
Next ==
  \/ Tick
  \/ StartCycle
  \/ EntryGuard
  \/ FetchClubInfo
  \/ FetchMatch
  \/ GetChannel
  \/ SendMatch
  \/ RosterEval
  \/ PlayoffFetch
  \/ PlayoffChannel
  \/ PlayoffClubInfo
  \/ PlayoffSend
  \/ MonthCheck
  \/ NextRow
  \/ CycleDone
  \/ Sleep

Spec == Init /\ [][Next]_vars

\* ------------------------------------------------------------ claims
InPass == pass.g \in Guilds
Cursor == settings[pass.g].last_match_id
PlayoffCursor == settings[pass.g].last_playoff_match_id

(* C1: when the league path finds a new match and its notification is not  *)
(* delivered (no channel, no embed, or channel.send raises), the guild's    *)
(* last_match_id is the one the cycle read, no cursor write was attempted,  *)
(* and the dedup test still calls the same match new.                       *)
C1_CursorKeptOnFailedPost ==
  (InPass /\ pass.league = "postfail") =>
     /\ Cursor = row.last_match_id
     /\ pass.cursorCalls = 0
     /\ ~AlreadyPosted(pass.match_id, Cursor)

C1_Witness ==
  /\ InPass /\ pc = "next" /\ pass.league = "postfail"
  /\ pass.match_id = "555" /\ row.last_match_id = None

(* C2: set_last_match_id is called exactly once per successful             *)
(* channel.send of the league path and never without one, it stores the    *)
(* identity of the match just sent, and the stored cursor of every guild   *)
(* is its initial value or the identity of a match that was delivered.     *)
C2_CursorOnlyAfterPost ==
  /\ \A g \in Guilds :
        settings[g].last_match_id \in {None} \cup postedIds[g]
  /\ InPass =>
        /\ pass.cursorCalls = pass.sends
        /\ pass.sends <= 1
        /\ Cursor # row.last_match_id => (pass.sends = 1 /\ Cursor = pass.match_id)

C2_Witness ==
  /\ InPass /\ pc = "members" /\ pass.league = "posted" /\ pass.sends = 1
  /\ pass.cursorCalls = 1 /\ Cursor = "555" /\ row.last_match_id = None

(* C3: when the identity of the fetched league match equals the cursor the *)
(* cycle read, the loop body ends with no post, no cursor write and no     *)
(* stat write; a match goes on to be posted only if the cursor is None or  *)
(* differs from its identity, and with a None cursor it always does.       *)
C3_Dedup ==
  InPass =>
    /\ pass.league = "dedup" =>
          /\ row.last_match_id # None /\ pass.match_id = row.last_match_id
          /\ pass.sends = 0 /\ pass.cursorCalls = 0 /\ pass.statWrites = 0
          /\ Cursor = row.last_match_id
    /\ pass.league \in {"new", "postfail", "posted"} =>
          (row.last_match_id = None \/ pass.match_id # row.last_match_id)
    /\ (pass.match_id # None /\ row.last_match_id \in {None, pass.match_id}) =>
          (pass.league = "dedup" <=> row.last_match_id = pass.match_id)

C3_Witness ==
  /\ InPass /\ pc = "next" /\ pass.league = "dedup"
  /\ pass.match_id = "555" /\ row.last_match_id = "555"

(* C4 (as claimed): when the post of a newly detected playoff match fails, *)
(* last_playoff_match_id is not updated and the match is still new.        *)
C4_PlayoffCursorKeptOnFailedPost ==
  (InPass /\ pc = "monthly" /\ pass.playoff = "postfail") =>
     PlayoffIsNew(loc.playoff_match_id, PlayoffCursor)

(* C5 (as claimed), for the first loop body of guild 1 in the first cycle, *)
(* when its posts and cursor writes all succeeded: no match was delivered  *)
(* to the match channel more than once.                                    *)
C5_NoDoublePost ==
  ( /\ InPass /\ cycle = 1 /\ pass.g = 1
    /\ pass.league = "posted" /\ Cursor = pass.match_id
    /\ pass.playoff = "posted" /\ PlayoffCursor = loc.playoff_match_id )
  => \A m \in Matches : postCount[1][m] <= 1

(* C6: a cycle that has read its rows reaches its end with the loop body   *)
(* run for every row, whatever failed for any guild, and no exception      *)
(* leaves poll_once_all_guilds.                                            *)
C6_FailureIsolation ==
  /\ ~cyc.aborted
  /\ pc = "sleep" => cyc.visited = { rows[i].guild_id : i \in 1..Len(rows) }

C6_Witness ==
  /\ pc = "sleep" /\ cycle = 1 /\ cyc.failed = {1} /\ cyc.visited = Guilds
  /\ \E m \in Matches : postCount[2][m] = 1

(* C7 (as claimed): a guild with a cooldown entry gets no upstream request *)
(* in a cycle that started before the cooldown had elapsed.                *)
C7_NoRequestInCycleStartedInCooldown ==
  (InPass /\ pass.requested /\ pass.cooldownEnd > 0) => cyc.start >= pass.cooldownEnd

(* C7 (amended): a guild whose entry guard reads the clock before the end  *)
(* of its cooldown is skipped without any upstream request; a configured   *)
(* guild whose guard reads it at or after the end, as in every cycle that  *)
(* starts at or after the end, enters its normal requests.                 *)
C7_Cooldown ==
  InPass =>
    /\ pass.guardTime >= cyc.start
    /\ pass.cooldownEnd > pass.guardTime => (~pass.entered /\ ~pass.requested)
    /\ (pass.cooldownEnd <= pass.guardTime /\ ~Incomplete(row) /\ row.autopost = 1)
          => pass.entered
    /\ (pass.entered /\ pc # "clubinfo") => pass.requested

C7_Witness ==
  /\ InPass /\ pass.cooldownEnd > 0 /\ cyc.start >= pass.cooldownEnd
  /\ pass.entered /\ pass.requested

(* C8 (as claimed): once a handler has set the guild's cooldown, no        *)
(* further upstream request is made for the guild in the same loop body.   *)
C8_NoRequestAfterCooldownSet ==
  (InPass /\ pass.blocked) => ~pass.reqAfterBlock

(* C9 (as claimed): when a request of fetch_latest_match ends in           *)
(* EAApiForbiddenError, fetch_latest_match raises at once and requests no  *)
(* further combination.                                                    *)
C9_ForbiddenIsTerminal ==
  (ci.fn = "fetch_latest_match" /\ ci.forbidden) =>
     (ci.status = "raise" /\ ~ci.afterForbidden)

(* C10: fetch_club_info requests the given platform first; on              *)
(* EAApiForbiddenError it raises it with no second request; on any other   *)
(* failure it makes exactly one more request, for the other generation,    *)
(* and returns (info, other) or raises what that request raised.           *)
C10_ClubInfoFallback ==
  ci.fn = "fetch_club_info" =>
    /\ Len(ci.calls) >= 1 /\ ci.calls[1] = ci.platform
    /\ ci.first = "ok" =>
          (ci.calls = << ci.platform >> /\ ci.status = "return" /\ ci.used = ci.platform)
    /\ ci.first = "EAApiForbiddenError" =>
          ( /\ ci.calls = << ci.platform >> /\ ci.status = "raise"
            /\ ci.exc = "EAApiForbiddenError" )
    /\ ci.first = "RuntimeError" =>
          /\ Len(ci.calls) = 2
          /\ {ci.calls[1], ci.calls[2]} = {"common-gen5", "common-gen4"}
          /\ ci.second = "ok" => (ci.status = "return" /\ ci.used = ci.calls[2])
          /\ ci.second # "ok" => (ci.status = "raise" /\ ci.exc = ci.second)

C10_Witness ==
  /\ ci.fn = "fetch_club_info" /\ ci.first = "RuntimeError" /\ ci.second = "ok"
  /\ ci.status = "return" /\ ci.used # ci.platform /\ Len(ci.calls) = 2

\* ============================================================ fetch_json
\* ea_api.py 330: max_attempts, 3 unless the caller says otherwise.
DefaultMaxAttempts == 3
\* The largest max_attempts a call is made with here.
MaxAttemptsBound == 3

Paths == {"/clubs/info", "/clubs/matches", "/members/stats"}

\* ea_api.py 354-357: the transport is fixed for the process.
Transports == {"playwright", "aiohttp"}

Outcome(cls, status) == [cls |-> cls, status |-> status]
NoOutcome == Outcome("none", 0)

(* What one attempt ends in.  Over Playwright (ea_api.py 245-282): the     *)
(* payload, EAApiHttpError for a status >= 400, RuntimeError when fetch()  *)
(* fails, JSONDecodeError.  Over aiohttp (227-231): the payload,           *)
(* ClientResponseError from raise_for_status, TimeoutError.                *)
AttemptOutcomes(transport) ==
  IF transport = "playwright"
  THEN {Outcome("ok", 200), Outcome("RuntimeError", 0), Outcome("JSONDecodeError", 200)}
       \cup {Outcome("EAApiHttpError", st) : st \in {403, 503, 404}}
  ELSE {Outcome("ok", 200), Outcome("TimeoutError", 0)}
       \cup {Outcome("ClientResponseError", st) : st \in {403, 503, 500}}

\* ea_api.py 360, 378, 396: the except clauses of one attempt, in source order.
FetchJsonHandlers ==
  << Clause("EAApiHttpError", "http"), Clause("ClientResponseError", "http"),
     Clause("Exception", "other") >>

FetchJsonStepMut(attempt, max_attempts, out) ==
  IF out.cls = "ok" THEN "return" ELSE "break"

(* ea_api.py 352-404: the body of the for loop for one attempt.  "next":   *)
(* the body ends (continue, or the end of the 403/503 branch) and the for  *)
(* loop takes the next attempt if there is one.                            *)
FetchJsonStep(attempt, max_attempts, out) ==
  IF out.cls = "ok" THEN "return"
  ELSE IF Dispatch(FetchJsonHandlers, out.cls) = "http" /\ out.status \in {403, 503}
  THEN "next"
  ELSE IF attempt < max_attempts THEN "next" ELSE "break"

FetchJsonRaiseMut(last_exc) == "RuntimeError"

\* ea_api.py 407-411: what is raised once the loop is left.
FetchJsonRaise(last_exc) ==
  IF last_exc.cls = "ClientResponseError" /\ last_exc.status = 403
  THEN "EAApiForbiddenError"
  ELSE IF last_exc.cls = "EAApiHttpError" /\ last_exc.status = 403
  THEN "EAApiForbiddenError"
  ELSE "RuntimeError"

(* A call of fetch_json(session, path, params, max_attempts).  attempt:    *)
(* the loop variable; made: what each attempt so far ended in.             *)
FjCall ==
  /\ fj.at \in {"idle", "returned", "raised"}
  /\ \E path \in Paths, transport \in Transports,
        max_attempts \in {DefaultMaxAttempts} \cup (0..MaxAttemptsBound) :
       fj' = [at |-> IF max_attempts >= 1 THEN "loop" ELSE "after",
              path |-> path, transport |-> transport, max_attempts |-> max_attempts,
              attempt |-> 1, made |-> << >>, last_exc |-> NoOutcome,
              raised |-> None, raisedPath |-> None]
  /\ UNCHANGED << pollVars, mo, ms, idn, hi, bf, po, tk, potm, mw >>

FjAttempt ==
  /\ fj.at = "loop"
  /\ \E out \in AttemptOutcomes(fj.transport) :
       LET s == FetchJsonStep(fj.attempt, fj.max_attempts, out)
           made == Append(fj.made, out)
       IN  fj' = CASE s = "return" ->
                        [fj EXCEPT !.at = "returned", !.made = made]
                   [] s = "break" ->
                        [fj EXCEPT !.at = "after", !.made = made, !.last_exc = out]
                   [] OTHER ->
                        [fj EXCEPT !.at = IF fj.attempt < fj.max_attempts
                                          THEN "loop" ELSE "after",
                                   !.attempt = IF fj.attempt < fj.max_attempts
                                               THEN @ + 1 ELSE @,
                                   !.made = made, !.last_exc = out]
  /\ UNCHANGED << pollVars, mo, ms, idn, hi, bf, po, tk, potm, mw >>

FjRaise ==
  /\ fj.at = "after"
  /\ fj' = [fj EXCEPT !.at = "raised", !.raised = FetchJsonRaise(fj.last_exc),
                      !.raisedPath = IF FetchJsonRaise(fj.last_exc) = "EAApiForbiddenError"
                                     THEN fj.path ELSE None]
  /\ UNCHANGED << pollVars, mo, ms, idn, hi, bf, po, tk, potm, mw >>

NextFetchJson == FjCall \/ FjAttempt \/ FjRaise

SpecFetchJson == Init /\ [][NextFetchJson]_vars

FjFailed(i) == fj.made[i].cls # "ok"
FjForbidden(o) == o.cls \in {"EAApiHttpError", "ClientResponseError"} /\ o.status = 403

(* C11: a call of fetch_json makes at most max_attempts attempts; only the *)
(* last attempt made can be a success, and the call returns with it; the   *)
(* call raises only after exactly max_attempts attempts, all failed,       *)
(* whatever they failed with; the loop variable never exceeds the budget.  *)
C11_AttemptBudget ==
  fj.at # "idle" =>
    /\ Len(fj.made) <= fj.max_attempts
    /\ fj.attempt <= IF fj.max_attempts = 0 THEN 1 ELSE fj.max_attempts
    /\ \A i \in 1..Len(fj.made) : (i < Len(fj.made) => FjFailed(i))
    /\ fj.at = "returned" <=> (Len(fj.made) >= 1 /\ ~FjFailed(Len(fj.made)))
    /\ fj.at \in {"after", "raised"} =>
          (Len(fj.made) = fj.max_attempts /\ \A i \in 1..Len(fj.made) : FjFailed(i))
    /\ fj.at = "loop" => Len(fj.made) = fj.attempt - 1

C11_Witness ==
  /\ fj.at = "raised" /\ fj.max_attempts = DefaultMaxAttempts /\ Len(fj.made) = 3
  /\ fj.made[1].status = 403 /\ fj.made[2].cls = "TimeoutError" /\ fj.made[3].status = 500

(* C12: fetch_json raises EAApiForbiddenError only with the budget used    *)
(* up, with the requested path, and exactly when the last attempt failed   *)
(* with HTTP 403; when the last attempt failed otherwise it raises plain   *)
(* RuntimeError, whatever the earlier attempts failed with.                *)
C12_ForbiddenOnlyOnFinal403 ==
  fj.at = "raised" =>
    /\ fj.raised \in {"EAApiForbiddenError", "RuntimeError"}
    /\ fj.raised = "EAApiForbiddenError" <=>
          (Len(fj.made) >= 1 /\ FjForbidden(fj.made[Len(fj.made)]))
    /\ fj.raised = "EAApiForbiddenError" =>
          (Len(fj.made) = fj.max_attempts /\ fj.raisedPath = fj.path)

C12_Witness ==
  /\ fj.at = "raised" /\ fj.raised = "EAApiForbiddenError" /\ fj.raisedPath = "/clubs/matches"
  /\ Len(fj.made) = 3 /\ fj.made[1].status = 503 /\ FjForbidden(fj.made[3])

\* ============================================================ monthly.py
\* The number of times the calendar month changes.
MaxMonths == 3

\* datetime.now(timezone.utc) after i changes of month; the first month is
\* November 2024, so that a change of year is among them.
ClockAt(i) ==
  LET t == 2024 * 12 + 10 + i
  IN  [year |-> t \div 12, month |-> (t % 12) + 1]

\* f"{n:02d}"
Pad2(n) == IF n < 10 THEN "0" \o ToStr(n) ELSE ToStr(n)

\* monthly.py 30-33: strftime("%Y-%m")
detect_month_period(i) ==
  LET clock == ClockAt(i) IN ToStr(clock.year) \o "-" \o Pad2(clock.month)

\* monthly.py 36-41
previous_month_period(i) ==
  LET clock == ClockAt(i)
  IN  IF clock.month = 1 THEN ToStr(clock.year - 1) \o "-12"
      ELSE ToStr(clock.year) \o "-" \o Pad2(clock.month - 1)

MonthPeriods == { detect_month_period(i) : i \in (0 - 1)..MaxMonths }

(* The monthly tables of database.py, as monthly.py uses them: the periods *)
(* with an announcement row, and the periods with monthly stats rows.      *)
has_monthly_been_announced(announced, month_period) == month_period \in announced
mark_monthly_announced(announced, month_period) == announced \cup {month_period}
get_monthly_stats(stats, month_period) == month_period \in stats
update_monthly_stats(stats, month_period) == stats \cup {month_period}

\* What the monthly channel is at the time of an announcement: not set in
\* the settings, set but unknown to the client, or found.
MonthlyChannels == {"unset", "notfound", "found"}

(* monthly.py 84-108: announce_player_of_month up to channel.send.         *)
(* "send": the embed is built and channel.send awaited.                    *)
AnnounceStep(announced, stats, month_period, chan) ==
  IF has_monthly_been_announced(announced, month_period) THEN "already"
  ELSE IF chan = "unset" THEN "nochannel"
  ELSE IF ~get_monthly_stats(stats, month_period) THEN "nostats"
  ELSE IF chan = "notfound" THEN "nochannel"
  ELSE "send"

AfterPotmSendMut(sent) == "log"

\* monthly.py 158-164: send, then mark; an exception of send is logged.
AfterPotmSend(sent) == IF sent THEN "mark" ELSE "log"

(* monthly.py 176-205: check_month_rollover up to its call of              *)
(* announce_player_of_month: the new _last_known_month entry and the       *)
(* period to announce (None: no call).                                     *)
RolloverStep(last_month, i, announced, stats) ==
  LET current_month == detect_month_period(i)
  IN  IF last_month = None
      THEN [last |-> current_month,
            announce |-> IF ~has_monthly_been_announced(announced, previous_month_period(i))
                            /\ get_monthly_stats(stats, previous_month_period(i))
                         THEN previous_month_period(i) ELSE None,
            branch |-> "first"]
      ELSE IF current_month # last_month
      THEN [last |-> current_month,
            announce |-> IF get_monthly_stats(stats, last_month) THEN last_month ELSE None,
            branch |-> "rollover"]
      ELSE [last |-> last_month, announce |-> None, branch |-> "same"]

(* elapsed: changes of month so far; last_known: _last_known_month of the  *)
(* guild (in memory); announced, stats: the database; period: the period   *)
(* whose embed is being sent, via: the branch of check_month_rollover that *)
(* sends it.  History: posts, the deliveries per period; failed, the       *)
(* period whose delivery failed in this process in the check that detected *)
(* the change of month; laterCheck, a                                      *)
(* later check_month_rollover of the same process has run; retried, that   *)
(* check attempted the failed period again; restarts, restarts so far;     *)
(* skipped, a first check after a restart found its period announced.      *)
MoInit ==
  [at |-> "idle", elapsed |-> 0, last_known |-> None, announced |-> {}, stats |-> {},
   period |-> None, via |-> None, posts |-> [p \in MonthPeriods |-> 0],
   failed |-> None, laterCheck |-> FALSE, retried |-> FALSE, restarted |-> FALSE,
   skipped |-> FALSE]

\* The bot is started for the first time.
MoStart ==
  /\ mo = Idle
  /\ mo' = MoInit
  /\ UNCHANGED << pollVars, fj, ms, idn, hi, bf, po, tk, potm, mw >>

\* The calendar month changes.
MoMonth ==
  /\ mo.at = "idle" /\ mo # Idle
  /\ mo.elapsed < MaxMonths
  /\ mo' = [mo EXCEPT !.elapsed = @ + 1]
  /\ UNCHANGED << pollVars, fj, ms, idn, hi, bf, po, tk, potm, mw >>

\* monthly.py 44-75: a league match of the current or the previous month.
MoLeagueMatch ==
  /\ mo.at = "idle" /\ mo # Idle
  /\ \E month_period \in {detect_month_period(mo.elapsed), previous_month_period(mo.elapsed)} :
       mo' = [mo EXCEPT !.stats = update_monthly_stats(@, month_period)]
  /\ UNCHANGED << pollVars, fj, ms, idn, hi, bf, po, tk, potm, mw >>

\* The process is restarted between two cycles: the module state is lost.
MoRestart ==
  /\ mo.at = "idle" /\ mo # Idle
  /\ mo' = [mo EXCEPT !.last_known = None, !.failed = None, !.laterCheck = FALSE,
                      !.retried = FALSE, !.restarted = TRUE]
  /\ UNCHANGED << pollVars, fj, ms, idn, hi, bf, po, tk, potm, mw >>

\* monthly.py 167-205 and 78-108: check_month_rollover, up to channel.send.
MoCheck ==
  /\ mo.at = "idle" /\ mo # Idle
  /\ \E chan \in MonthlyChannels :
       LET r == RolloverStep(mo.last_known, mo.elapsed, mo.announced, mo.stats)
           a == IF r.announce = None THEN "nocall"
                ELSE AnnounceStep(mo.announced, mo.stats, r.announce, chan)
           attempt == a \in {"send", "nochannel"}
       IN  mo' = [mo EXCEPT
                   !.last_known = r.last,
                   !.at = IF a = "send" THEN "send" ELSE "idle",
                   !.period = IF a = "send" THEN r.announce ELSE None,
                   !.via = IF a = "send" THEN r.branch ELSE None,
                   !.laterCheck = @ \/ mo.failed # None,
                   !.retried = @ \/ (mo.failed # None /\ attempt /\ r.announce = mo.failed),
                   !.failed = IF a = "nochannel" /\ r.branch = "rollover" /\ mo.failed = None
                             THEN r.announce ELSE @,
                   !.skipped = @ \/ (r.branch = "first" /\ mo.restarted
                                      /\ previous_month_period(mo.elapsed) \in mo.announced)]
  /\ UNCHANGED << pollVars, fj, ms, idn, hi, bf, po, tk, potm, mw >>

\* monthly.py 158-164: channel.send returns or raises.
MoSend ==
  /\ mo.at = "send"
  /\ \E sent \in BOOLEAN :
       mo' = [mo EXCEPT
                !.at = "idle", !.period = None, !.via = None,
                !.posts[mo.period] = IF sent THEN Bump(@) ELSE @,
                !.announced = IF AfterPotmSend(sent) = "mark"
                              THEN mark_monthly_announced(@, mo.period) ELSE @,
                !.failed = IF ~sent /\ mo.via = "rollover" /\ mo.failed = None
                          THEN mo.period ELSE @]
  /\ UNCHANGED << pollVars, fj, ms, idn, hi, bf, po, tk, potm, mw >>

NextMonthly == MoStart \/ MoMonth \/ MoLeagueMatch \/ MoRestart \/ MoCheck \/ MoSend

SpecMonthly == Init /\ [][NextMonthly]_vars

C15_RetryAfterFailedDelivery ==
  (mo # Idle /\ mo.failed # None /\ mo.laterCheck) => mo.retried

\* ======================================== milestones.py, achievements.py
\* milestones.py 12-17
MILESTONE_THRESHOLDS ==
  [goals |-> << 1, 10, 25, 50, 100, 250, 500 >>,
   assists |-> << 1, 10, 25, 50, 100, 250, 500 >>,
   matches |-> << 1, 10, 25, 50, 100, 250, 500 >>,
   motm |-> << 1, 5, 10, 25, 50, 100 >>]

MilestoneTypes == << "goals", "assists", "matches", "motm" >>

\* milestones.py 28, 34, 40, 46: the key of the roster entry each type reads.
StatKey(type) ==
  CASE type = "goals" -> "goals" [] type = "assists" -> "assists"
    [] type = "matches" -> "gamesPlayed" [] OTHER -> "manOfTheMatch"

(* A value of a roster entry: the key is missing, None, an int, or a       *)
(* string of decimal digits (digits: most significant first; <<>> is "").  *)
Missing == [form |-> "missing", n |-> 0, digits |-> << >>]
NoneVal == [form |-> "none", n |-> 0, digits |-> << >>]
IntVal(n) == [form |-> "int", n |-> n, digits |-> << >>]
StrVal(digits) == [form |-> "str", n |-> 0, digits |-> digits]

\* int("<digits>")
RECURSIVE DigitsToInt(_)
DigitsToInt(digits) ==
  IF digits = << >> THEN 0
  ELSE 10 * DigitsToInt(SubSeq(digits, 1, Len(digits) - 1)) + digits[Len(digits)]

\* int(stats.get(key, 0) or 0)
IntOr0(v) ==
  CASE v.form = "missing" -> 0
    [] v.form = "none" -> 0
    [] v.form = "int" -> v.n
    [] OTHER -> IF v.digits = << >> THEN 0 ELSE DigitsToInt(v.digits)

\* The roster entries of one player that the upstream can answer with.
RosterStats ==
  [goals : {Missing, StrVal(<< 9 >>), StrVal(<< 1, 0 >>)},
   assists : {NoneVal, IntVal(1)},
   gamesPlayed : {StrVal(<< >>), IntVal(1)},
   manOfTheMatch : {IntVal(0), IntVal(1)}]

Milestone(type, value) == [type |-> type, value |-> value]

\* An event of announce_achievements, and the absence of an event.
Achievement(achievement_id) == [type |-> achievement_id, value |-> 0]
NoEvent == [type |-> "none", value |-> 0]

has_milestone_been_announcedMut(recorded, type, value) == FALSE

\* database.py 286-299, for one guild and player
has_milestone_been_announced(recorded, type, value) == Milestone(type, value) \in recorded

\* database.py 302-318: INSERT OR IGNORE
record_milestone(recorded, type, value) == recorded \cup {Milestone(type, value)}

\* database.py 361-374, 377-393
has_achievement_been_earned(earned, achievement_id) == Achievement(achievement_id) \in earned
record_achievement(earned, achievement_id) == earned \cup {Achievement(achievement_id)}

CheckCategoryMut(recorded, type, n) ==
  LET hit == SelectSeq(MILESTONE_THRESHOLDS[type],
                       LAMBDA t : n >= t /\ ~has_milestone_been_announced(recorded, type, t))
  IN  IF hit = << >> THEN << >> ELSE << Milestone(type, hit[Len(hit)]) >>

\* milestones.py 29-31 (and 35-37, 41-43, 47-49): the loop over one type's thresholds.
CheckCategory(recorded, type, n) ==
  LET hit == SelectSeq(MILESTONE_THRESHOLDS[type],
                       LAMBDA t : n >= t /\ ~has_milestone_been_announced(recorded, type, t))
  IN  [i \in 1..Len(hit) |-> Milestone(type, hit[i])]

\* milestones.py 20-51
check_milestones(recorded, stats) ==
  CheckCategory(recorded, "goals", IntOr0(stats.goals))
    \o CheckCategory(recorded, "assists", IntOr0(stats.assists))
    \o CheckCategory(recorded, "matches", IntOr0(stats.gamesPlayed))
    \o CheckCategory(recorded, "motm", IntOr0(stats.manOfTheMatch))

\* achievements.py 262-282: the first of the cumulative achievements.
check_achievements(earned, stats) ==
  IF IntOr0(stats.manOfTheMatch) >= 1 /\ ~has_achievement_been_earned(earned, "man_of_match")
  THEN << Achievement("man_of_match") >> ELSE << >>

(* recorded, earned: the player_milestones and player_achievements rows of *)
(* one guild and player.  kind, stats, emitted, k: the announcement in     *)
(* hand, the roster entry it was computed from, its events and the index   *)
(* of the next one.  History: sent, the events delivered; dup, an event    *)
(* was delivered a second time; failed, the event whose send raised in the *)
(* announcement in hand or the last one.                                   *)
MsInit ==
  [at |-> "ready", recorded |-> {}, earned |-> {}, kind |-> None, stats |-> None,
   emitted |-> << >>, k |-> 0, sent |-> {}, dup |-> FALSE, failed |-> NoEvent]

MsStart ==
  /\ ms = Idle
  /\ ms' = MsInit
  /\ UNCHANGED << pollVars, fj, mo, idn, hi, bf, po, tk, potm, mw >>

(* bot_new.py 386-389 with milestones.py 54-66: check_milestones for a     *)
(* roster entry, then announce_milestones up to its loop.                  *)
MsCheck ==
  /\ ms.at = "ready"
  /\ \E stats \in RosterStats, chan \in MonthlyChannels :
       LET new_milestones == check_milestones(ms.recorded, stats)
       IN  ms' = IF new_milestones # << >> /\ chan = "found"
                 THEN [ms EXCEPT !.at = "announce", !.kind = "milestone", !.stats = stats,
                                 !.emitted = new_milestones, !.k = 1, !.failed = NoEvent]
                 ELSE [ms EXCEPT !.failed = NoEvent]
  /\ UNCHANGED << pollVars, fj, mo, idn, hi, bf, po, tk, potm, mw >>

\* bot_new.py 392-395 with achievements.py 618-631.
AchCheck ==
  /\ ms.at = "ready"
  /\ \E stats \in RosterStats, chan \in MonthlyChannels :
       LET new_achievements == check_achievements(ms.earned, stats)
       IN  ms' = IF new_achievements # << >> /\ chan = "found"
                 THEN [ms EXCEPT !.at = "announce", !.kind = "achievement", !.stats = stats,
                                 !.emitted = new_achievements, !.k = 1, !.failed = NoEvent]
                 ELSE [ms EXCEPT !.failed = NoEvent]
  /\ UNCHANGED << pollVars, fj, mo, idn, hi, bf, po, tk, potm, mw >>

MsDone == [ms EXCEPT !.at = "ready", !.kind = None, !.stats = None, !.emitted = << >>, !.k = 0]

(* milestones.py 68-113 and achievements.py 633-654: one pass of the loop  *)
(* (record first, then build the embed and send), or the end of the loop.  *)
(* An exception of the record or of the send ends the loop in the except.  *)
AnnounceOne ==
  /\ ms.at = "announce"
  /\ IF ms.k > Len(ms.emitted)
     THEN ms' = MsDone
     ELSE \E dbOk \in BOOLEAN, sent \in BOOLEAN :
            LET e == ms.emitted[ms.k]
                stored == [ms EXCEPT
                             !.recorded = IF ms.kind = "milestone"
                                          THEN record_milestone(@, e.type, e.value) ELSE @,
                             !.earned = IF ms.kind = "achievement"
                                        THEN record_achievement(@, e.type) ELSE @]
            IN  ms' = IF ~dbOk THEN MsDone
                      ELSE IF ~sent
                      THEN [stored EXCEPT !.at = "ready", !.kind = None, !.stats = None,
                                          !.emitted = << >>, !.k = 0, !.failed = e]
                      ELSE [stored EXCEPT !.k = @ + 1, !.sent = @ \cup {e},
                                          !.dup = @ \/ e \in ms.sent]
  /\ UNCHANGED << pollVars, fj, mo, idn, hi, bf, po, tk, potm, mw >>

NextMilestones == MsStart \/ MsCheck \/ AchCheck \/ AnnounceOne

SpecMilestones == Init /\ [][NextMilestones]_vars

MsRunning == ms # Idle

(* C17 (as claimed): when channel.send raised for a milestone or an        *)
(* achievement, no row exists for that event afterwards.                   *)
C17_NoRecordOnFailedSend ==
  (MsRunning /\ ms.failed # NoEvent) => (ms.failed \notin ms.recorded /\ ms.failed \notin ms.earned)

(* C18: the set of recorded milestone rows never shrinks, check_milestones *)
(* never emits an event whose row exists, and no milestone is delivered    *)
(* twice.                                                                  *)
C18_MilestoneMonotone ==
  /\ [](MsRunning =>
          /\ ~ms.dup
          /\ ms.sent \subseteq (ms.recorded \cup ms.earned)
          /\ (ms.at = "announce" /\ ms.kind = "milestone") =>
                \A i \in ms.k..Len(ms.emitted) : ms.emitted[i] \notin ms.recorded)
  /\ [][(MsRunning /\ ms' # Idle) => ms.recorded \subseteq ms'.recorded]_vars

C18_Witness ==
  /\ MsRunning /\ ms.at = "announce" /\ ms.kind = "milestone"
  /\ Milestone("goals", 1) \in ms.sent
  /\ ms.emitted = << Milestone("goals", 10) >> /\ ms.k = 1

(* C19: check_milestones returns, without repetition, exactly the events   *)
(* (type, t) with t a threshold of the type, the player's value of the     *)
(* type at least t, and no row recorded for (type, t).                     *)
C19_AllNewThresholds ==
  (MsRunning /\ ms.at = "announce" /\ ms.kind = "milestone" /\ ms.k = 1) =>
    /\ { ms.emitted[i] : i \in 1..Len(ms.emitted) } =
         { e \in { Milestone(MilestoneTypes[c], MILESTONE_THRESHOLDS[MilestoneTypes[c]][j]) :
                     c \in 1..4, j \in 1..6 } \cup { Milestone(MilestoneTypes[c], 500) : c \in 1..3 } :
             /\ IntOr0(ms.stats[StatKey(e.type)]) >= e.value
             /\ e \notin ms.recorded }
    /\ \A i, j \in 1..Len(ms.emitted) : ms.emitted[i] = ms.emitted[j] => i = j

C19_Witness ==
  /\ MsRunning /\ ms.at = "announce" /\ ms.kind = "milestone" /\ ms.k = 1
  /\ ms.stats.goals = StrVal(<< 1, 0 >>) /\ IntOr0(ms.stats.assists) = 0
  /\ ms.recorded = { Milestone("goals", 1) }
  /\ ms.emitted = << Milestone("goals", 10) >>

\* ============================================ bot_new.py 246-271, identity
MaxScore == 2

\* The match records the upstream can answer with, over every encoding of the id.
IdentityRecords ==
  { Match(ClubOf(1), "league", d.has, d.value, j.form, j.id, ts, our, 0) :
      d \in { [has |-> FALSE, value |-> None], [has |-> TRUE, value |-> None],
              [has |-> TRUE, value |-> ""], [has |-> TRUE, value |-> "555"] },
      j \in { [form |-> "absent", id |-> None], [form |-> "str", id |-> "777"],
              [form |-> "strbad", id |-> None], [form |-> "raw", id |-> "{}"],
              [form |-> "dict", id |-> "777"], [form |-> "dict", id |-> None] },
      ts \in {1700, 1800}, our \in 0..MaxScore }

\* bot_new.py 246-271 for a record of the upstream.
IdnResolve ==
  /\ idn = Idle
  /\ \E m \in IdentityRecords :
       idn' = [at |-> "resolved", match |-> m, match_id |-> LeagueIdentity(m), again |-> None]
  /\ UNCHANGED << pollVars, fj, mo, ms, hi, bf, po, tk, potm, mw >>

\* The next cycle fetches the same record and resolves it again.
IdnRepeat ==
  /\ idn # Idle /\ idn.again = None
  /\ idn' = [idn EXCEPT !.again = LeagueIdentity(idn.match)]
  /\ UNCHANGED << pollVars, fj, mo, ms, hi, bf, po, tk, potm, mw >>

NextIdentity == IdnResolve \/ IdnRepeat

SpecIdentity == Init /\ [][NextIdentity]_vars

(* C20 (as claimed): a record with an extractable embedded id (a matchJson *)
(* string carrying "matchId":"<digits>", or a matchJson dict with a        *)
(* matchId) and no usable direct matchId resolves to the embedded id,      *)
(* never to the composite; resolving the same record again gives the same  *)
(* identity.                                                               *)
C20_EmbeddedBeforeComposite ==
  idn # Idle =>
    LET m == idn.match
        usableDirect == m.matchId.has /\ Truthy(m.matchId.value)
        extractable == m.matchJson.form \in {"str", "dict"} /\ Truthy(m.matchJson.id)
    IN  /\ (extractable /\ ~usableDirect) => idn.match_id = m.matchJson.id
        /\ idn.again # None => idn.again = idn.match_id

\* ==================================== database.py, player_match_history
MaxMatchIds == 3
MaxHistory == 10

(* The rows of player_match_history of one guild and player, in the order  *)
(* of played_at (the time of the write), oldest first.                     *)
HistoryRow(match_id, goals, assists, clean_sheet) ==
  [match_id |-> match_id, goals |-> goals, assists |-> assists,
   clean_sheet |-> IF clean_sheet THEN 1 ELSE 0,
   hat_trick |-> IF goals >= 3 THEN 1 ELSE 0,
   assist_hat_trick |-> IF assists >= 3 THEN 1 ELSE 0]

update_player_match_historyMut(table, match_id, goals, assists, clean_sheet) ==
  Append(table, HistoryRow(match_id, goals, assists, clean_sheet))

(* database.py 442-463: INSERT OR REPLACE under the primary key of         *)
(* database.py 90-104; the row written carries played_at = utcnow().       *)
update_player_match_history(table, match_id, goals, assists, clean_sheet) ==
  Append(SelectSeq(table, LAMBDA r : r.match_id # match_id),
         HistoryRow(match_id, goals, assists, clean_sheet))

\* database.py 505-517
get_player_hat_trick_count(table) ==
  Cardinality({ i \in 1..Len(table) : table[i].hat_trick = 1 })

HistoryLimit == 20

(* database.py 411-439: the newest `limit` rows, oldest first, as dicts    *)
(* with the keys match_id, goals, assists, clean_sheet (and played_at).    *)
get_player_match_history(table, limit) ==
  LET n == Len(table)
      from == IF n > limit THEN n - limit + 1 ELSE 1
  IN  [i \in 1..(n - from + 1) |->
         [match_id |-> table[from + i - 1].match_id,
          goals |-> table[from + i - 1].goals,
          assists |-> table[from + i - 1].assists,
          clean_sheet |-> table[from + i - 1].clean_sheet = 1]]

\* m.get("result") of a dict of get_player_match_history: the key is not there.
ResultOf(m) == IF "result" \in DOMAIN m THEN m.result ELSE None

\* match_history[-n:]
LastN(h, n) == IF Len(h) > n THEN SubSeq(h, Len(h) - n + 1, Len(h)) ELSE h

AllOf(h, Test(_)) == \A i \in 1..Len(h) : Test(h[i])

\* achievements.py 547-549 (and 565-567, 575-577, 585-587, 595-597, 605-607)
Streak(h, n, Test(_)) == Len(h) >= n /\ AllOf(LastN(h, n), Test)

\* achievements.py 537-615, the ids of the achievements returned, in order.
check_streak_achievements(table, earned) ==
  LET match_history == get_player_match_history(table, HistoryLimit)
      New(id) == ~has_achievement_been_earned(earned, id)
      If(c, id) == IF c THEN << id >> ELSE << >>
  IN  IF match_history = << >> THEN << >>
      ELSE If(Streak(match_history, 5, LAMBDA m : m.goals > 0) /\ New("on_fire"), "on_fire")
        \o If(Len(match_history) >= 20 /\ New("mr_reliable"), "mr_reliable")
        \o If(Streak(match_history, 5, LAMBDA m : m.clean_sheet)
                /\ New("clean_sheet_specialist"), "clean_sheet_specialist")
        \o If(Streak(match_history, 5, LAMBDA m : m.assists > 0)
                /\ New("assist_streak"), "assist_streak")
        \o If(Streak(match_history, 10, LAMBDA m : m.goals > 0 \/ m.assists > 0)
                /\ New("involvement"), "involvement")
        \o If(Streak(match_history, 5, LAMBDA m : ResultOf(m) = "W")
                /\ New("fortress"), "fortress")
        \o If(Streak(match_history, 3, LAMBDA m : ResultOf(m) = "D")
                /\ New("draw_specialists"), "draw_specialists")

(* table: the rows.  results: the result of each match of the table as the *)
(* polling loop computed it (bot_new.py 406-414).  earned, emitted: the    *)
(* achievement rows the last streak evaluation saw and the ids it          *)
(* returned.  History: re, the last write re-delivered a match as it is in *)
(* the table, with the row count and hat-trick count before the write.     *)
HiInit ==
  [at |-> "ready", table |-> << >>, results |-> << >>, earned |-> {}, emitted |-> << >>,
   re |-> [was |-> FALSE, len |-> 0, ht |-> 0]]

HiStart ==
  /\ hi = Idle
  /\ hi' = HiInit
  /\ UNCHANGED << pollVars, fj, mo, ms, idn, bf, po, tk, potm, mw >>

\* bot_new.py 433-437: a match of the player is written, for the first time or again.
HiDeliver ==
  /\ hi # Idle /\ hi.at = "ready"
  /\ \E match_id \in 1..MaxMatchIds, goals \in {0, 3}, assists \in {0, 3}, clean_sheet \in BOOLEAN :
       hi' = [hi EXCEPT
                !.table = update_player_match_history(@, match_id, goals, assists, clean_sheet),
                !.re = [was |-> \E i \in 1..Len(hi.table) :
                                  hi.table[i] = HistoryRow(match_id, goals, assists, clean_sheet),
                        len |-> Len(hi.table),
                        ht |-> get_player_hat_trick_count(hi.table)]]
  /\ UNCHANGED << pollVars, fj, mo, ms, idn, bf, po, tk, potm, mw >>

NextHistory == HiStart \/ HiDeliver

SpecHistory == Init /\ [][NextHistory]_vars

(* C22: the table holds at most one row per match id, and a write that     *)
(* re-delivers a match as it is in the table leaves the number of rows and *)
(* the player's hat-trick count as they were.                              *)
C22_OneRowPerMatch ==
  hi # Idle =>
    /\ \A i, j \in 1..Len(hi.table) : hi.table[i].match_id = hi.table[j].match_id => i = j
    /\ hi.re.was => /\ Len(hi.table) = hi.re.len
                    /\ get_player_hat_trick_count(hi.table) = hi.re.ht

C22_Witness ==
  /\ hi # Idle /\ hi.re.was /\ Len(hi.table) = 2 /\ hi.re.ht = 1
  /\ hi.table[2].hat_trick = 1

\* --------------------------------------------- the streak evaluation
(* What a new match of the player can be: the player's goals and assists,  *)
(* whether the club kept a clean sheet, and the club's result.             *)
StreakProfiles ==
  { [goals |-> 1, assists |-> 0, clean_sheet |-> TRUE, result |-> "W"],
    [goals |-> 0, assists |-> 2, clean_sheet |-> TRUE, result |-> "D"],
    [goals |-> 0, assists |-> 0, clean_sheet |-> FALSE, result |-> "L"] }

EarnedBefore == { {}, {Achievement("on_fire"), Achievement("involvement")},
                  {Achievement("fortress"), Achievement("draw_specialists")} }

\* bot_new.py 406-437: the next match of the player is written to the history.
HiNewMatch ==
  /\ hi # Idle /\ Len(hi.table) < MaxHistory
  /\ \E p \in StreakProfiles :
       hi' = [hi EXCEPT
                !.at = "ready",
                !.table = update_player_match_history(@, Len(@) + 1, p.goals, p.assists,
                                                      p.clean_sheet),
                !.results = Append(@, p.result),
                !.earned = {}, !.emitted = << >>]
  /\ UNCHANGED << pollVars, fj, mo, ms, idn, bf, po, tk, potm, mw >>

\* achievements.py 377: check_streak_achievements for the player.
HiCheck ==
  /\ hi # Idle /\ hi.at = "ready"
  /\ \E earned \in EarnedBefore :
       hi' = [hi EXCEPT !.at = "checked", !.earned = earned,
                        !.emitted = check_streak_achievements(hi.table, earned)]
  /\ UNCHANGED << pollVars, fj, mo, ms, idn, bf, po, tk, potm, mw >>

NextStreak == HiStart \/ HiNewMatch \/ HiCheck

SpecStreak == Init /\ [][NextStreak]_vars

StreakLength(id) == CASE id = "involvement" -> 10 [] id = "draw_specialists" -> 3 [] OTHER -> 5

\* The predicate of a streak achievement on the i-th match of the history.
Qualifies(id, i) ==
  CASE id = "on_fire" -> hi.table[i].goals > 0
    [] id = "clean_sheet_specialist" -> hi.table[i].clean_sheet = 1
    [] id = "assist_streak" -> hi.table[i].assists > 0
    [] id = "involvement" -> hi.table[i].goals > 0 \/ hi.table[i].assists > 0
    [] id = "fortress" -> hi.results[i] = "W"
    [] OTHER -> hi.results[i] = "D"

Emitted(id) == \E i \in 1..Len(hi.emitted) : hi.emitted[i] = id

StreakExact(id) ==
  Emitted(id) <=>
    /\ Len(hi.table) >= StreakLength(id)
    /\ \A i \in (Len(hi.table) - StreakLength(id) + 1)..Len(hi.table) : Qualifies(id, i)
    /\ Achievement(id) \notin hi.earned

(* C23 (as claimed): each streak achievement is returned by                *)
(* check_streak_achievements exactly when the history has at least N       *)
(* entries, the N most recent all qualify and the achievement has no row.  *)
C23_StreakBoundary ==
  (hi # Idle /\ hi.at = "checked") =>
    \A id \in {"on_fire", "clean_sheet_specialist", "assist_streak", "fortress",
                "involvement", "draw_specialists"} : StreakExact(id)

\* The same for the four streaks over goals, assists and clean sheets.
StreakBoundaryOfPlayerStats ==
  (hi # Idle /\ hi.at = "checked") =>
    \A id \in {"on_fire", "clean_sheet_specialist", "assist_streak", "involvement"} :
       StreakExact(id)

\* ================================= the historical backfill of a player
(* The two coroutines that run the backfill: the polling loop              *)
(* (bot_new.py 376-383) and the /clubstats command (bot_new.py 1024-1031). *)
BackfillTasks == {"poll", "clubstats"}

\* The roster entry of the player as a request of a task can return it.
BackfillStats ==
  [gamesPlayed : {IntVal(49), IntVal(50), IntVal(200)}, manOfTheMatch : {IntVal(0), IntVal(1)}]

(* achievements.py 672-818, for man_of_match (709-718), veteran (782-788)  *)
(* and iron_man (803-808): the achievements returned, each recorded as it  *)
(* is appended.                                                            *)
check_historical_achievements(earned, stats) ==
  LET If(c, id) == IF c /\ ~has_achievement_been_earned(earned, id) THEN << id >> ELSE << >>
  IN  If(IntOr0(stats.manOfTheMatch) >= 1, "man_of_match")
        \o If(IntOr0(stats.gamesPlayed) >= 200, "veteran")
        \o If(IntOr0(stats.gamesPlayed) >= 50, "iron_man")

RECURSIVE RecordAll(_, _)
RecordAll(earned, ids) ==
  IF ids = << >> THEN earned
  ELSE RecordAll(record_achievement(earned, Head(ids)), Tail(ids))

(* initialized: the player_initialization row exists.  earned: the         *)
(* player's achievement rows.  task: where each coroutine stands ("idle",  *)
(* or "send": suspended in the await of channel.send at achievements.py    *)
(* 873 with the list it is announcing).  History: summaries, the lists of  *)
(* the summaries delivered; runs, the calls of                             *)
(* check_historical_achievements; ranAfterMark, one of them was made when  *)
(* the row existed.                                                        *)
BfInit ==
  [at |-> "ready", initialized |-> FALSE, earned |-> {},
   task |-> [t \in BackfillTasks |-> [pc |-> "idle", list |-> << >>]],
   summaries |-> << >>, runs |-> 0, ranAfterMark |-> FALSE]

BfStart ==
  /\ bf = Idle
  /\ bf' = BfInit
  /\ UNCHANGED << pollVars, fj, mo, ms, idn, hi, po, tk, potm, mw >>

\* database.py 468-481
is_player_initialized(b) == b.initialized

(* bot_new.py 377-383 and 1025-1031 up to the first suspension: the test   *)
(* of the flag, check_historical_achievements, and                         *)
(* announce_historical_achievements (achievements.py 821-842) up to its    *)
(* await; without a suspension the mark follows at once.                   *)
BfObserve(t) ==
  /\ bf # Idle /\ bf.task[t].pc = "idle"
  /\ \E stats \in BackfillStats, chan \in MonthlyChannels :
       IF is_player_initialized(bf)
       THEN bf' = bf
       ELSE LET historical_achievements == check_historical_achievements(bf.earned, stats)
                ran == [bf EXCEPT !.earned = RecordAll(@, historical_achievements),
                                  !.runs = Bump(@),
                                  !.ranAfterMark = @ \/ bf.initialized]
            IN  bf' = IF historical_achievements # << >> /\ chan = "found"
                      THEN [ran EXCEPT !.task[t] = [pc |-> "send",
                                                     list |-> historical_achievements]]
                      ELSE [ran EXCEPT !.initialized = TRUE]
  /\ UNCHANGED << pollVars, fj, mo, ms, idn, hi, po, tk, potm, mw >>

(* achievements.py 873-877 and the mark at bot_new.py 383 / 1031: the send *)
(* of the summary returns or raises (the except logs), then the task marks *)
(* the player.                                                             *)
BfSend(t) ==
  /\ bf # Idle /\ bf.task[t].pc = "send"
  /\ \E sent \in BOOLEAN :
       bf' = [bf EXCEPT !.task[t] = [pc |-> "idle", list |-> << >>],
                        !.summaries = IF sent THEN Append(@, bf.task[t].list) ELSE @,
                        !.initialized = TRUE]
  /\ UNCHANGED << pollVars, fj, mo, ms, idn, hi, po, tk, potm, mw >>

NextBackfill == BfStart \/ \E t \in BackfillTasks : BfObserve(t) \/ BfSend(t)

SpecBackfill == Init /\ [][NextBackfill]_vars

(* C24 (as claimed): at most one historical summary is ever delivered for  *)
(* the player, and check_historical_achievements is never called once the  *)
(* player is marked.                                                       *)
C24_BackfillOnce ==
  bf # Idle => (Len(bf.summaries) <= 1 /\ ~bf.ranAfterMark)

\* No achievement is named in two summaries, and none in a summary twice.
NoAchievementInTwoSummaries ==
  bf # Idle =>
    \A i, j \in 1..Len(bf.summaries) :
      \A k \in 1..Len(bf.summaries[i]), l \in 1..Len(bf.summaries[j]) :
        bf.summaries[i][k] = bf.summaries[j][l] => (i = j /\ k = l)

\* ============================================================ playoffs.py
\* playoffs.py 38: the number of playoff matches that completes a period.
PlayoffMatchesToComplete == 15

MaxPlayoffMatches == 17
MaxPlayoffPeriods == 2
PlayoffPeriods == 1..MaxPlayoffPeriods

\* database.py 682-694: COUNT(DISTINCT match_id), 0 when the query fails.
count_playoff_matches(recorded, dbOk) == IF dbOk THEN Cardinality(recorded) ELSE 0

\* playoffs.py 31-42
check_playoff_completion(recorded, dbOk) ==
  count_playoff_matches(recorded, dbOk) >= PlayoffMatchesToComplete

\* database.py 647-660: FALSE when the query fails.
has_playoff_been_announced(marked, playoff_period, dbOk) ==
  IF dbOk THEN playoff_period \in marked ELSE FALSE

\* database.py 663-679: INSERT OR IGNORE
mark_playoff_announced(marked, playoff_period) == marked \cup {playoff_period}

\* database.py 697-714: INSERT OR IGNORE under the key (guild, period, match id).
record_playoff_match(recorded, match_id) == recorded \cup {match_id}

(* playoffs.py 74-96 of announce_player_of_playoffs: "send" when the       *)
(* function reaches the await of channel.send, "return" otherwise.         *)
PlayoffAnnounceStep(marked, playoff_period, readOk, chan, hasStats) ==
  IF has_playoff_been_announced(marked, playoff_period, readOk) THEN "return"
  ELSE IF chan = "unset" THEN "return"
  ELSE IF ~hasStats THEN "return"
  ELSE IF chan = "notfound" THEN "return"
  ELSE "send"

(* period: the month detect_playoff_period returns.  recorded: the match   *)
(* ids of playoff_club_stats per period.  marked: the periods of           *)
(* playoff_announcements.  History: sends, the summaries delivered per     *)
(* period; early, a summary was delivered for a period with fewer than 15  *)
(* matches recorded; afterMark, a summary was delivered for a period that  *)
(* was marked.                                                             *)
PoInit ==
  [at |-> "ready", period |-> 1, recorded |-> [q \in PlayoffPeriods |-> {}], marked |-> {},
   sends |-> [q \in PlayoffPeriods |-> 0], early |-> FALSE, afterMark |-> FALSE]

PoStart ==
  /\ po = Idle
  /\ po' = PoInit
  /\ UNCHANGED << pollVars, fj, mo, ms, idn, hi, bf, tk, potm, mw >>

\* The calendar month changes between two polls.
PoMonth ==
  /\ po # Idle /\ po.at = "ready" /\ po.period < MaxPlayoffPeriods
  /\ po' = [po EXCEPT !.period = @ + 1]
  /\ UNCHANGED << pollVars, fj, mo, ms, idn, hi, bf, tk, potm, mw >>

(* playoffs.py 237-259 with 74-96: process_playoff_match for the next      *)
(* playoff match of the month or for the latest one again, up to the await *)
(* of channel.send.  An exception of record_playoff_match ends the         *)
(* function in its except clause (261-262).                                *)
PoMatch ==
  /\ po # Idle /\ po.at = "ready"
  /\ LET n == Cardinality(po.recorded[po.period])
     IN  \E match_id \in {n, n + 1} \cap 1..MaxPlayoffMatches,
            recOk \in BOOLEAN, countOk \in BOOLEAN, readOk \in BOOLEAN,
            chan \in MonthlyChannels, hasStats \in BOOLEAN :
           IF ~recOk THEN po' = po
           ELSE LET rec == record_playoff_match(po.recorded[po.period], match_id)
                    stored == [po EXCEPT !.recorded[po.period] = rec]
                IN  po' = IF check_playoff_completion(rec, countOk)
                               /\ PlayoffAnnounceStep(po.marked, po.period, readOk, chan,
                                                      hasStats) = "send"
                          THEN [stored EXCEPT !.at = "send"]
                          ELSE stored
  /\ UNCHANGED << pollVars, fj, mo, ms, idn, hi, bf, tk, potm, mw >>

(* playoffs.py 171-179: channel.send returns or raises; after a send that  *)
(* returned, mark_playoff_announced writes the mark or raises; the except  *)
(* clause logs.                                                            *)
PoSend ==
  /\ po # Idle /\ po.at = "send"
  /\ \E sent \in BOOLEAN, markOk \in BOOLEAN :
       po' = IF ~sent THEN [po EXCEPT !.at = "ready"]
             ELSE [po EXCEPT
                     !.at = "ready",
                     !.sends[po.period] = Bump(@),
                     !.early = @ \/ Cardinality(po.recorded[po.period]) < PlayoffMatchesToComplete,
                     !.afterMark = @ \/ po.period \in po.marked,
                     !.marked = IF markOk THEN mark_playoff_announced(@, po.period) ELSE @]
  /\ UNCHANGED << pollVars, fj, mo, ms, idn, hi, bf, tk, potm, mw >>

NextPlayoffs == PoStart \/ PoMonth \/ PoMatch \/ PoSend

SpecPlayoffs == Init /\ [][NextPlayoffs]_vars

(* C25 (as claimed): a summary is delivered only for a period with at      *)
(* least 15 distinct playoff matches recorded, at most once per period,    *)
(* and never for a period whose mark has been written.                     *)
C25_PlayoffSummaryOnce ==
  po # Idle =>
    /\ ~po.early
    /\ \A q \in PlayoffPeriods : po.sends[q] <= 1
    /\ ~po.afterMark

\* The first part on its own: no summary for a period with fewer than 15 matches.
PlayoffSummaryOnlyWhenComplete == po # Idle => ~po.early

\* =============================================== on_ready and match_watch
MaxReady == 4

\* The two programs of the repository that run the polling loop.
Programs == {"bot_new", "bot"}

(* bot_new.py 137-154: on_ready creates a match_watch task each time it    *)
(* runs.  bot.py 332-337: on_ready creates the poll_loop task only when    *)
(* self.poll_task is not set.                                              *)
CreatesTask(program, tasks) == program = "bot_new" \/ tasks = << >>

(* program: the program running.  ready: the times on_ready has fired.     *)
(* tasks: the polling tasks created, each at "wait" (wait_until_ready),    *)
(* at "guild" (suspended in an await of the loop body of guild g) or at    *)
(* "sleep" (asyncio.sleep between two cycles).                             *)
TaskAt(pcOfTask, g) == [pc |-> pcOfTask, g |-> g]

TkInit(program) == [at |-> "run", program |-> program, ready |-> 0, tasks |-> << >>]

TkStart ==
  /\ tk = Idle
  /\ \E program \in Programs : tk' = TkInit(program)
  /\ UNCHANGED << pollVars, fj, mo, ms, idn, hi, bf, po, potm, mw >>

\* on_ready fires: at login, and again after a reconnect of the gateway.
TkOnReady ==
  /\ tk # Idle /\ tk.ready < MaxReady
  /\ tk' = [tk EXCEPT !.ready = @ + 1,
                      !.tasks = IF CreatesTask(tk.program, @) THEN Append(@, TaskAt("wait", 0)) ELSE @]
  /\ UNCHANGED << pollVars, fj, mo, ms, idn, hi, bf, po, potm, mw >>

\* The guild a task is suspended at, 0 when it is outside the loop body.
AtGuild(p) == IF p.pc = "guild" THEN p.g ELSE 0

(* bot_new.py 156-167 (bot.py 339-349): a task runs to its next await:     *)
(* from wait_until_ready or the sleep into the first guild of a cycle,     *)
(* from a guild to the next one, from the last guild to the sleep.         *)
TkStep(i) ==
  /\ tk # Idle /\ i \in 1..Len(tk.tasks)
  /\ tk' = [tk EXCEPT !.tasks[i] = IF AtGuild(@) = 0 THEN TaskAt("guild", 1)
                                   ELSE IF @.g < NumGuilds THEN TaskAt("guild", @.g + 1)
                                   ELSE TaskAt("sleep", 0)]
  /\ UNCHANGED << pollVars, fj, mo, ms, idn, hi, bf, po, potm, mw >>

NextTasks == TkStart \/ TkOnReady \/ \E i \in 1..MaxReady : TkStep(i)

SpecTasks == Init /\ [][NextTasks]_vars

(* C26 (as claimed): however often on_ready fires, at most one polling     *)
(* task exists, and no two tasks are in the loop body of the same guild at *)
(* the same time.                                                          *)
C26_SinglePollingTask ==
  tk # Idle =>
    /\ Len(tk.tasks) <= 1
    /\ \A i, j \in 1..Len(tk.tasks) :
         (i # j /\ AtGuild(tk.tasks[i]) # 0) => AtGuild(tk.tasks[i]) # AtGuild(tk.tasks[j])

\* The same for the program bot.py alone.
SinglePollingTaskInBotPy ==
  (tk # Idle /\ tk.program = "bot") => Len(tk.tasks) <= 1

\* ======================================= the entry guard on its own
GuardCycles == 1

(* What /setclub, /setmatchchannel and /autopost can have left in the row  *)
(* of a guild (database.py 52-62): everything set, or one part missing.    *)
GuardConfigs(g) ==
  { InitialRow(g),
    [InitialRow(g) EXCEPT !.club_id = 0],
    [InitialRow(g) EXCEPT !.platform = None],
    [InitialRow(g) EXCEPT !.channel_id = 0],
    [InitialRow(g) EXCEPT !.autopost = 0] }

(* The first cycle of a process whose guilds are in any of these           *)
(* configurations (guild 1 is set up), with or without a cooldown entry    *)
(* for guild 1 left by a hard block.                                       *)
InitGuard ==
  /\ settings \in { s \in [Guilds -> UNION { GuardConfigs(g) : g \in Guilds }] :
                      /\ s[1] = InitialRow(1)
                      /\ \A g \in Guilds : s[g] \in GuardConfigs(g) }
  /\ ea_forbidden_until \in { << >>, Put(<< >>, 1, EA_FORBIDDEN_COOLDOWN_SECONDS) }
  /\ now = 0
  /\ pc = "idle"
  /\ rows = << >>
  /\ idx = 0
  /\ loc = LocInit
  /\ cycle = 0
  /\ pass = NoPass
  /\ cyc = CycInit(0)
  /\ postCount = [g \in Guilds |-> [m \in Matches |-> 0]]
  /\ postedIds = [g \in Guilds |-> {}]
  /\ monthlyCalls = [g \in Guilds |-> [m \in Matches |-> 0]]
  /\ ci = CiInit
  /\ fj = Idle /\ mo = Idle /\ ms = Idle /\ idn = Idle
  /\ hi = Idle /\ bf = Idle /\ po = Idle /\ tk = Idle /\ potm = Idle /\ mw = Idle

StartGuardCycle == StartCycle /\ cycle' <= GuardCycles

NextGuard ==
  \/ Tick
  \/ StartGuardCycle
  \/ EntryGuard
  \/ FetchClubInfo
  \/ FetchMatch
  \/ GetChannel
  \/ SendMatch
  \/ RosterEval
  \/ PlayoffFetch
  \/ PlayoffChannel
  \/ PlayoffClubInfo
  \/ PlayoffSend
  \/ MonthCheck
  \/ NextRow
  \/ CycleDone
  \/ Sleep

SpecGuard == InitGuard /\ [][NextGuard]_vars

(* C27: when the loop reaches a guild whose row lacks the club id, the     *)
(* platform or the match channel, or whose autopost is not 1, or whose     *)
(* cooldown entry is later than the clock, the loop body ends at the guard *)
(* and changes neither the settings, the cooldown entries nor what was     *)
(* posted; a loop body that ended at the guard made no request, sent       *)
(* nothing and wrote nothing.                                              *)
C27_EntryGuardSkips ==
  /\ []((InPass /\ pc = "next" /\ ~pass.entered) =>
          /\ ~pass.requested /\ ~pass.blocked /\ ~pass.roster
          /\ pass.sends = 0 /\ pass.cursorCalls = 0 /\ pass.statWrites = 0
          /\ pass.poSends = 0 /\ pass.poCursorCalls = 0 /\ pass.monthChecks = 0
          /\ Get(ea_forbidden_until, pass.g, 0) = pass.cooldownEnd)
  /\ [][( /\ pc = "guard" /\ pc' # "guard" /\ idx <= Len(rows)
          /\ \/ rows[idx].club_id = 0 \/ rows[idx].platform \in {None, ""}
             \/ rows[idx].channel_id = 0 \/ rows[idx].autopost # 1
             \/ Get(ea_forbidden_until, rows[idx].guild_id, 0) > now )
        => ( /\ pc' = "next" /\ ~pass'.entered
             /\ UNCHANGED << settings, ea_forbidden_until, postCount, postedIds,
                             monthlyCalls >> )]_vars

C27_Witness ==
  /\ InPass /\ pc = "next" /\ ~pass.entered
  /\ settings[pass.g].channel_id = 0
  /\ cyc.visited = Guilds

\* ======================================================== match_watch
MaxWatchCycles == 8

(* What poll_once_all_guilds ends in: it returns, or an exception leaves   *)
(* it: get_all_guild_settings re-raises the database error (bot_new.py     *)
(* 175, database.py 281-283), the session or its warmup fails (183-187),   *)
(* or something else outside the try blocks of the loop body does.  A task *)
(* is cancelled only when the event loop shuts down, after the close.      *)
WatchOutcomes(closed) ==
  {"returned", "OperationalError", "ClientError", "RuntimeError"}
    \cup (IF closed THEN {"CancelledError"} ELSE {})

WatchHandlersMut == << Clause("RuntimeError", "log") >>

\* bot_new.py 164-165: except Exception as e: logger.error(...)
WatchHandlers == << Clause("Exception", "log") >>

(* at: "wait" (wait_until_ready), "poll" (in poll_once_all_guilds),        *)
(* "sleep" (asyncio.sleep) or "ended" (the coroutine returned or raised).  *)
(* cycles: the calls of poll_once_all_guilds so far; last: what the latest *)
(* one ended in; closed: is_closed().                                      *)
MwInit == [at |-> "wait", cycles |-> 0, last |-> None, closed |-> FALSE]

MwStart ==
  /\ mw = Idle
  /\ mw' = MwInit
  /\ UNCHANGED << pollVars, fj, mo, ms, idn, hi, bf, po, tk, potm >>

\* bot_new.py 161-163: the test of the while loop, then the call of the cycle.
LoopTest(w) ==
  IF w.closed THEN [w EXCEPT !.at = "ended"]
  ELSE [w EXCEPT !.at = "poll", !.cycles = @ + 1]

\* bot_new.py 158-161: wait_until_ready returns.
MwReady ==
  /\ mw # Idle /\ mw.at = "wait"
  /\ mw' = LoopTest(mw)
  /\ UNCHANGED << pollVars, fj, mo, ms, idn, hi, bf, po, tk, potm >>

\* bot_new.py 162-165: the cycle returns or raises.
MwCycle ==
  /\ mw # Idle /\ mw.at = "poll"
  /\ \E out \in WatchOutcomes(mw.closed) :
       mw' = IF out # "returned" /\ Dispatch(WatchHandlers, out) = "propagate"
             THEN [mw EXCEPT !.at = "ended", !.last = out]
             ELSE [mw EXCEPT !.at = "sleep", !.last = out]
  /\ UNCHANGED << pollVars, fj, mo, ms, idn, hi, bf, po, tk, potm >>

\* bot_new.py 167, 161: the sleep of POLL_INTERVAL_SECONDS ends; the loop test.
MwWake ==
  /\ mw # Idle /\ mw.at = "sleep"
  /\ mw.closed \/ mw.cycles < MaxWatchCycles
  /\ mw' = LoopTest(mw)
  /\ UNCHANGED << pollVars, fj, mo, ms, idn, hi, bf, po, tk, potm >>

\* The client is closed (the process is told to stop).
MwClose ==
  /\ mw # Idle /\ ~mw.closed
  /\ mw' = [mw EXCEPT !.closed = TRUE]
  /\ UNCHANGED << pollVars, fj, mo, ms, idn, hi, bf, po, tk, potm >>

NextWatch == MwStart \/ MwReady \/ MwCycle \/ MwWake \/ MwClose

(* The event loop runs a task that can run: the cycle ends, the sleep      *)
(* ends.                                                                   *)
SpecWatch ==
  Init /\ [][NextWatch]_vars /\ WF_vars(MwReady) /\ WF_vars(MwCycle) /\ WF_vars(MwWake)

(* C28: the loop never ends while the client is open, and after a cycle    *)
(* that raised, whatever the exception, another cycle is started unless    *)
(* the client is closed first.                                             *)
C28_LoopSurvives ==
  /\ []((mw # Idle /\ mw.at = "ended") => mw.closed)
  /\ \A c \in 1..(MaxWatchCycles - 1) :
       (mw # Idle /\ mw.at = "sleep" /\ mw.last # "returned" /\ mw.cycles = c)
         ~> (mw # Idle /\ (mw.closed \/ (mw.at = "poll" /\ mw.cycles = c + 1)))

C28_Witness ==
  /\ mw # Idle /\ mw.at = "poll" /\ mw.cycles = 2 /\ mw.last = "OperationalError"
  /\ ~mw.closed

\* ================================================ Player of the Month
MIN_MATCHES_FOR_POTM == 3
MaxPotmPlayers == 4
MaxPotmScore == 2

(* A row of the monthly stats of one period: the player, the matches       *)
(* played in the period and the weighted score derived on read.            *)
PotmRows(i) ==
  { [player_name |-> i, matches_played |-> n, monthly_score |-> sc] :
      n \in (MIN_MATCHES_FOR_POTM - 1)..(MIN_MATCHES_FOR_POTM + 1),
      sc \in 1..MaxPotmScore }

\* The rows of a period in the order they were inserted.
PotmTables ==
  UNION { { t \in [1..n -> UNION { PotmRows(i) : i \in 1..n }] :
              \A i \in 1..n : t[i].player_name = i } : n \in 0..MaxPotmPlayers }

\* The row r put into a list ranked by score, after the rows of equal score.
RECURSIVE InsertRanked(_, _)
InsertRanked(ranked, r) ==
  IF ranked = << >> THEN << r >>
  ELSE IF Head(ranked).monthly_score >= r.monthly_score
       THEN << Head(ranked) >> \o InsertRanked(Tail(ranked), r)
       ELSE << r >> \o ranked

(* get_monthly_stats as the announcement reads it: the rows of the period  *)
(* ranked by score, highest first, equal scores in insertion order.        *)
RECURSIVE RankedMonthlyStats(_)
RankedMonthlyStats(table) ==
  IF table = << >> THEN << >>
  ELSE InsertRanked(RankedMonthlyStats(SubSeq(table, 1, Len(table) - 1)),
                    table[Len(table)])

\* s[start:stop] of Python, for 0 <= start <= stop.
Slice(s, start, stop) == SubSeq(s, start + 1, IF stop < Len(s) THEN stop ELSE Len(s))

HasMinMatches(r) == r.matches_played >= MIN_MATCHES_FOR_POTM

EligibleMut(all_stats) == all_stats

\* monthly.py 99-103: the players with enough matches, or all of them.
Eligible(all_stats) ==
  LET eligible == SelectSeq(all_stats, HasMinMatches)
  IN  IF eligible = << >> THEN all_stats ELSE eligible

NoPlayer == [player_name |-> 0, matches_played |-> 0, monthly_score |-> 0]

(* table: the rows of the period; all_stats: what get_monthly_stats        *)
(* returned; out: where announce_player_of_month ended; best_player,       *)
(* runners_up: the players the embed names.                                *)
PotmInit(table) ==
  [at |-> "ready", table |-> table, all_stats |-> << >>, out |-> None,
   best_player |-> NoPlayer, runners_up |-> << >>, marked |-> FALSE]

PotmStart ==
  /\ potm = Idle
  /\ \E table \in PotmTables : potm' = PotmInit(table)
  /\ UNCHANGED << pollVars, fj, mo, ms, idn, hi, bf, po, tk, mw >>

\* monthly.py 78-167: announce_player_of_month for one period.
PotmAnnounce ==
  /\ potm # Idle /\ potm.at = "ready"
  /\ \E already \in BOOLEAN, chan \in MonthlyChannels, sent \in BOOLEAN :
       LET all_stats == RankedMonthlyStats(potm.table)
           step == AnnounceStep(IF already THEN {1} ELSE {},
                                IF all_stats # << >> THEN {1} ELSE {}, 1, chan)
           eligible == Eligible(all_stats)
           embed == step = "send" \/ (step = "nochannel" /\ chan = "notfound")
       IN  potm' =
             [potm EXCEPT
                !.at = "done",
                !.all_stats = IF step \in {"already", "nochannel"} /\ ~embed
                              THEN << >> ELSE all_stats,
                !.out = IF step = "send"
                        THEN (IF sent THEN "posted" ELSE "sendfail")
                        ELSE step,
                !.best_player = IF step = "send" THEN eligible[1] ELSE NoPlayer,
                !.runners_up = IF step = "send" THEN Slice(eligible, 1, 3) ELSE << >>,
                !.marked = step = "send" /\ AfterPotmSend(sent) = "mark"]
  /\ UNCHANGED << pollVars, fj, mo, ms, idn, hi, bf, po, tk, mw >>

NextPotm == PotmStart \/ PotmAnnounce

SpecPotm == Init /\ [][NextPotm]_vars

\* The rows of a ranking that have the minimum of matches, in ranking order.
Qualified(ranking) ==
  SelectSeq(ranking, LAMBDA r : r.matches_played >= MIN_MATCHES_FOR_POTM)

(* C30: the embed names as winner the first, highest-scored player among   *)
(* those with at least MIN_MATCHES_FOR_POTM matches when there is one, and *)
(* the first player of the full ranking only when there is none; the       *)
(* runners-up are the next two players of the same list.                   *)
C30_WinnerHasMinMatches ==
  (potm # Idle /\ potm.at = "done" /\ potm.out \in {"posted", "sendfail"}) =>
    LET ranking == potm.all_stats
        list == IF Qualified(ranking) # << >> THEN Qualified(ranking) ELSE ranking
    IN  /\ potm.best_player = list[1]
        /\ \A i \in 1..Len(list) : potm.best_player.monthly_score >= list[i].monthly_score
        /\ Len(potm.runners_up) = (IF Len(list) >= 3 THEN 2 ELSE Len(list) - 1)
        /\ \A i \in 1..Len(potm.runners_up) : potm.runners_up[i] = list[i + 1]
        /\ (\E i \in 1..Len(ranking) : ranking[i].matches_played >= MIN_MATCHES_FOR_POTM)
             => potm.best_player.matches_played >= MIN_MATCHES_FOR_POTM

(* The top of the full ranking has too few matches, a lower player has     *)
(* enough and is named; four players, so the runners-up stop at two.       *)
C30_Witness ==
  /\ potm # Idle /\ potm.at = "done" /\ potm.out = "posted"
  /\ Len(potm.all_stats) = 4
  /\ potm.all_stats[1].matches_played < MIN_MATCHES_FOR_POTM
  /\ potm.best_player.matches_played >= MIN_MATCHES_FOR_POTM
  /\ potm.best_player # potm.all_stats[1]
  /\ Len(potm.runners_up) = 2

(* C13 (as claimed): every loop body that passed the entry guard calls     *)
(* check_month_rollover before it ends, whether the upstream returned no   *)
(* match, an already posted match, a new match, or the post failed.        *)
C13_MonthCheckEveryPass ==
  (InPass /\ pc = "next" /\ pass.entered) => pass.monthChecks >= 1

(* C16 (as claimed): a loop body whose club-info and match fetches         *)
(* succeeded requests the roster before it ends, also when the match       *)
(* fetched equals the stored cursor.                                       *)
C16_RosterEvaluatedWithoutNewMatch ==
  (InPass /\ pc = "next" /\ pass.league \in {"dedup", "posted"}) => pass.roster

(* C21 (as claimed): process_league_match_monthly is applied at most once *)
(* to a match of a guild, over all cycles.                                 *)
C21_MonthlyOncePerMatch ==
  \A g \in Guilds : \A m \in Matches : monthlyCalls[g][m] <= 1

(* C29 (as claimed): when a request made in the playoff block of a cycle   *)
(* ended in EAApiForbiddenError, the guild's cooldown entry has been set   *)
(* to the clock of that moment plus EA_FORBIDDEN_COOLDOWN_SECONDS.         *)
C29_PlayoffForbiddenSetsCooldown ==
  (InPass /\ pass.poForbidden) =>
     /\ pass.blocked
     /\ Get(ea_forbidden_until, pass.g, 0)
          >= pass.guardTime + EA_FORBIDDEN_COOLDOWN_SECONDS

(* The cooldown set in the playoff block comes from the handler of         *)
(* bot_new.py 494-499 only, which no request of the block reaches.         *)
PlayoffBlockNeverSetsCooldown ==
  [][(pc \in {"playoff", "po_channel", "po_clubinfo", "po_send"})
       => (ea_forbidden_until' = ea_forbidden_until)]_vars

====
